---- MODULE Spec2Model ----
(***************************************************************************)
(* Model of the letter-writer web application: the file validator, the     *)
(* content-preference parser, the prompt builder, the two page handlers    *)
(* and the POST /api/<page_name> endpoint.                                 *)
(*                                                                         *)
(* Python strings are TLA+ strings; Len, \o, SubSeq, Head and Tail are    *)
(* used on them, so strip(), lower(), upper(), title(), replace() and      *)
(* endswith() are computed character by character.                         *)
(***************************************************************************)
EXTENDS Integers, Sequences, FiniteSets, TLC

VARIABLES
    call,      \* function harness: the function applied and its arguments
    ret,       \* function harness: its result, NoRet before the call
    req,       \* endpoint: the request being handled (files, form, page name)
    pc,        \* endpoint: position of generic_api in the request
    idx,       \* endpoint: index of the upload the file loop is at
    uploaded,  \* endpoint: uploaded_files_data built so far
    server,    \* endpoint: server_files_data once loaded
    trace,     \* endpoint: the work steps performed for this request, in order
    api_calls, \* endpoint: calls made to the remote generation API
    resp,      \* endpoint: the response, NoResp until the request ends
    env        \* the process: whether claude_client is set, and the server file tree

vars == <<call, ret, req, pc, idx, uploaded, server, trace, api_calls, resp, env>>

(***************************************************************************)
(* Strings                                                                 *)
(***************************************************************************)
LowerCs == "abcdefghijklmnopqrstuvwxyz"
UpperCs == "ABCDEFGHIJKLMNOPQRSTUVWXYZ"

CharAt(s, i) == SubSeq(s, i, i)

IsLower(c) == \E i \in 1..Len(LowerCs) : CharAt(LowerCs, i) = c
IsUpper(c) == \E i \in 1..Len(UpperCs) : CharAt(UpperCs, i) = c
IsCased(c) == IsLower(c) \/ IsUpper(c)

ToLowerC(c) ==
    IF IsUpper(c)
    THEN CharAt(LowerCs, CHOOSE i \in 1..Len(UpperCs) : CharAt(UpperCs, i) = c)
    ELSE c

ToUpperC(c) ==
    IF IsLower(c)
    THEN CharAt(UpperCs, CHOOSE i \in 1..Len(LowerCs) : CharAt(LowerCs, i) = c)
    ELSE c

RECURSIVE lower(_)
lower(s) == IF s = "" THEN "" ELSE ToLowerC(Head(s)) \o lower(Tail(s))

RECURSIVE upper(_)
upper(s) == IF s = "" THEN "" ELSE ToUpperC(Head(s)) \o upper(Tail(s))

\* str.title(): a cased letter is upper-cased when it follows an uncased
\* character (or starts the string) and lower-cased otherwise.
RECURSIVE TitleFrom(_, _)
TitleFrom(s, prevCased) ==
    IF s = "" THEN ""
    ELSE (IF prevCased THEN ToLowerC(Head(s)) ELSE ToUpperC(Head(s)))
         \o TitleFrom(Tail(s), IsCased(Head(s)))

title(s) == TitleFrom(s, FALSE)

startswith(s, prefix) == Len(s) >= Len(prefix) /\ SubSeq(s, 1, Len(prefix)) = prefix

\* str.replace(old, new), old not empty
RECURSIVE replace(_, _, _)
replace(s, old, new) ==
    IF s = "" THEN ""
    ELSE IF startswith(s, old)
    THEN new \o replace(SubSeq(s, Len(old) + 1, Len(s)), old, new)
    ELSE Head(s) \o replace(Tail(s), old, new)

IsSpace(c) == c \in {" ", "\n", "\t", "\r"}

RECURSIVE lstrip(_)
lstrip(s) == IF s # "" /\ IsSpace(Head(s)) THEN lstrip(Tail(s)) ELSE s

RECURSIVE rstrip(_)
rstrip(s) ==
    IF s # "" /\ IsSpace(CharAt(s, Len(s)))
    THEN rstrip(SubSeq(s, 1, Len(s) - 1))
    ELSE s

strip(s) == rstrip(lstrip(s))

endswith(s, suffix) ==
    /\ Len(s) >= Len(suffix)
    /\ SubSeq(s, Len(s) - Len(suffix) + 1, Len(s)) = suffix

\* sep.join(items)
RECURSIVE join(_, _)
join(sep, items) ==
    IF items = <<>> THEN ""
    ELSE IF Len(items) = 1 THEN items[1]
    ELSE items[1] \o sep \o join(sep, Tail(items))

\* Python truthiness of a string
Truthy(s) == s # ""

(***************************************************************************)
(* Dictionaries: insertion-ordered sequences of [k, v] with distinct keys  *)
(***************************************************************************)
HasKey(d, k) == \E i \in 1..Len(d) : d[i].k = k

\* dict.get(k, default)
Get(d, k, default) ==
    IF HasKey(d, k) THEN d[CHOOSE i \in 1..Len(d) : d[i].k = k].v ELSE default

\* d[k] = v
Put(d, k, v) ==
    IF HasKey(d, k)
    THEN [i \in 1..Len(d) |-> IF d[i].k = k THEN [k |-> k, v |-> v] ELSE d[i]]
    ELSE Append(d, [k |-> k, v |-> v])

Keys(d) == [i \in 1..Len(d) |-> d[i].k]

(***************************************************************************)
(* File validator                                                          *)
(***************************************************************************)
MaxUploadBytes == 10485760

\* file.seek(0, 2); size = file.tell(); file.seek(0)
\* the size measured without the final seek(0)
MeasureSize_no_rewind(file) == [size |-> file.size, pos |-> file.size]

MeasureSize(file) == [size |-> file.size, pos |-> 0]

SupportedExt(filename) ==
    endswith(filename, ".docx") \/ endswith(filename, ".pdf") \/ endswith(filename, ".txt")

\* validate_file with the extension rejection reusing the empty-file reason
validate_file_shared_reason(file) ==
    IF ~file.present \/ file.filename = ""
    THEN [ok |-> FALSE, msg |-> "No file provided", pos |-> file.pos]
    ELSE IF ~SupportedExt(lower(file.filename))
    THEN [ok |-> FALSE, msg |-> "File is empty", pos |-> file.pos]
    ELSE IF MeasureSize(file).size > MaxUploadBytes
    THEN [ok |-> FALSE, msg |-> "File size must be less than 10MB",
          pos |-> MeasureSize(file).pos]
    ELSE IF MeasureSize(file).size = 0
    THEN [ok |-> FALSE, msg |-> "File is empty", pos |-> MeasureSize(file).pos]
    ELSE [ok |-> TRUE, msg |-> "File is valid", pos |-> MeasureSize(file).pos]

\* file_processors.validate_file
validate_file(file) ==
    IF ~file.present \/ file.filename = ""
    THEN [ok |-> FALSE, msg |-> "No file provided", pos |-> file.pos]
    ELSE IF ~SupportedExt(lower(file.filename))
    THEN [ok |-> FALSE, msg |-> "Only .docx, .pdf, and .txt files are supported",
          pos |-> file.pos]
    ELSE IF MeasureSize(file).size > MaxUploadBytes
    THEN [ok |-> FALSE, msg |-> "File size must be less than 10MB",
          pos |-> MeasureSize(file).pos]
    ELSE IF MeasureSize(file).size = 0
    THEN [ok |-> FALSE, msg |-> "File is empty", pos |-> MeasureSize(file).pos]
    ELSE [ok |-> TRUE, msg |-> "File is valid", pos |-> MeasureSize(file).pos]

\* app.validate_file, the validator generic_api calls
app_validate_file(file) ==
    IF ~file.present \/ file.filename = ""
    THEN [ok |-> FALSE, msg |-> "No file provided", pos |-> file.pos]
    ELSE IF ~(endswith(lower(file.filename), ".docx") \/ endswith(lower(file.filename), ".pdf"))
    THEN [ok |-> FALSE, msg |-> "Only .docx and .pdf files are supported",
          pos |-> file.pos]
    ELSE IF MeasureSize(file).size > MaxUploadBytes
    THEN [ok |-> FALSE, msg |-> "File size must be less than 10MB",
          pos |-> MeasureSize(file).pos]
    ELSE IF MeasureSize(file).size = 0
    THEN [ok |-> FALSE, msg |-> "File is empty", pos |-> MeasureSize(file).pos]
    ELSE [ok |-> TRUE, msg |-> "File is valid", pos |-> MeasureSize(file).pos]

(***************************************************************************)
(* Content-preference parser                                               *)
(***************************************************************************)
\* get_content_preferences comparing the submitted value without lower()
get_content_preferences_no_lower(form_data) ==
    [docx_text   |-> Get(form_data, "include_docx_text", "true") = "true",
     docx_xml    |-> Get(form_data, "include_docx_xml", "false") = "true",
     pdf_text    |-> Get(form_data, "include_pdf_text", "true") = "true",
     pdf_forms   |-> Get(form_data, "include_pdf_forms", "false") = "true",
     txt_content |-> Get(form_data, "include_txt_content", "true") = "true"]

\* page_handlers.get_content_preferences
get_content_preferences(form_data) ==
    [docx_text   |-> lower(Get(form_data, "include_docx_text", "true")) = "true",
     docx_xml    |-> lower(Get(form_data, "include_docx_xml", "false")) = "true",
     pdf_text    |-> lower(Get(form_data, "include_pdf_text", "true")) = "true",
     pdf_forms   |-> lower(Get(form_data, "include_pdf_forms", "false")) = "true",
     txt_content |-> lower(Get(form_data, "include_txt_content", "true")) = "true"]

(***************************************************************************)
(* Extracted documents                                                     *)
(*                                                                         *)
(* A mapping value is either an extracted-document dict, [isdict |-> TRUE, *)
(* d |-> r] with r a record holding exactly the keys the dict has, or a    *)
(* legacy plain string, [isdict |-> FALSE, s |-> text].  xml_structure and *)
(* form_data are ordered dicts; an XML part is a string or (file_list) a   *)
(* list of names.                                                          *)
(***************************************************************************)
KV(k, v) == [k |-> k, v |-> v]
Dict(r) == [isdict |-> TRUE, d |-> r]
Legacy(s) == [isdict |-> FALSE, s |-> s]
Str(s) == [kind |-> "str", s |-> s]

HasField(d, f) == f \in DOMAIN d

\* dict.get(f, default) on a record-shaped dict
GetField(d, f, default) == IF HasField(d, f) THEN d[f] ELSE default

\* str(x) of an XML part: a string is itself, a list prints as ['a', 'b']
RECURSIVE QuoteAll(_)
QuoteAll(items) ==
    IF items = <<>> THEN <<>> ELSE <<"'" \o items[1] \o "'">> \o QuoteAll(Tail(items))

PyStr(x) == IF x.kind = "str" THEN x.s ELSE "[" \o join(", ", QuoteAll(x.items)) \o "]"

\* truthiness of an XML part
PartTruthy(x) == IF x.kind = "str" THEN x.s # "" ELSE x.items # <<>>

\* json.dumps(d, indent=2, default=str) of a flat dict of strings
RECURSIVE JsonMembers(_)
JsonMembers(d) ==
    IF d = <<>> THEN <<>>
    ELSE <<"  \"" \o d[1].k \o "\": \"" \o d[1].v \o "\"">> \o JsonMembers(Tail(d))

json_dumps(d) == IF d = <<>> THEN "{}" ELSE "{\n" \o join(",\n", JsonMembers(d)) \o "\n}"

(***************************************************************************)
(* Prompt builder                                                          *)
(*                                                                         *)
(* context_sections is a list of strings; every element is kept with the   *)
(* section that appended it (sec), the content type it renders (kind) and  *)
(* the mapping key of the file it belongs to (owner).                      *)
(***************************************************************************)
XmlMax == 2000

Line(text, sec, kind, owner) == [text |-> text, sec |-> sec, kind |-> kind, owner |-> owner]

Texts(lines) == [i \in 1..Len(lines) |-> lines[i].text]

\* "Text Content:" and the stripped text, when the flag is on and the text is present and non-empty
RenderText(d, flag, sec, kind, owner) ==
    IF flag /\ HasField(d, "text_content") /\ Truthy(d.text_content)
    THEN <<Line("Text Content:", sec, kind, owner),
           Line(strip(d.text_content), sec, kind, owner)>>
    ELSE <<>>

\* the limit applied from its own length on
XmlPartText_at_limit(xml_str) ==
    IF Len(xml_str) >= XmlMax
    THEN SubSeq(xml_str, 1, XmlMax) \o "... [truncated]"
    ELSE xml_str

XmlPartText(xml_str) ==
    IF Len(xml_str) > XmlMax
    THEN SubSeq(xml_str, 1, XmlMax) \o "... [truncated]"
    ELSE xml_str

RECURSIVE RenderXmlParts(_, _, _)
RenderXmlParts(xml_structure, sec, owner) ==
    IF xml_structure = <<>> THEN <<>>
    ELSE (IF xml_structure[1].k # "error" /\ PartTruthy(xml_structure[1].v)
          THEN <<Line(upper(xml_structure[1].k) \o ":", sec, "docx_xml", owner),
                 Line(XmlPartText(PyStr(xml_structure[1].v)), sec, "docx_xml", owner)>>
          ELSE <<>>)
         \o RenderXmlParts(Tail(xml_structure), sec, owner)

RenderXml(d, flag, sec, owner) ==
    IF flag /\ HasField(d, "xml_structure") /\ d.xml_structure # <<>>
    THEN <<Line("\nDocument Structure (XML):", sec, "docx_xml", owner)>>
         \o RenderXmlParts(d.xml_structure, sec, owner)
    ELSE <<>>

RenderForms(d, flag, sec, owner) ==
    IF flag /\ HasField(d, "form_data") /\ d.form_data # <<>>
    THEN <<Line("\nPDF Form Data and Metadata:", sec, "pdf_forms", owner),
           Line(json_dumps(d.form_data), sec, "pdf_forms", owner)>>
    ELSE <<>>

\* RenderDict with the PDF text under the DOCX text flag
RenderDict_shared_text_flag(d, content_prefs, sec, owner) ==
    LET file_type == GetField(d, "file_type", "unknown") IN
    IF file_type = "docx"
    THEN RenderText(d, content_prefs.docx_text, sec, "docx_text", owner)
         \o RenderXml(d, content_prefs.docx_xml, sec, owner)
    ELSE IF file_type = "pdf"
    THEN RenderText(d, content_prefs.docx_text, sec, "pdf_text", owner)
         \o RenderForms(d, content_prefs.pdf_forms, sec, owner)
    ELSE IF file_type = "txt"
    THEN RenderText(d, content_prefs.txt_content, sec, "txt_content", owner)
    ELSE <<>>

\* RenderDict rendering XML structure and form data whatever the file_type
RenderDict_any_type(d, content_prefs, sec, owner) ==
    LET file_type == GetField(d, "file_type", "unknown") IN
    (IF file_type = "docx"
     THEN RenderText(d, content_prefs.docx_text, sec, "docx_text", owner)
     ELSE IF file_type = "pdf"
     THEN RenderText(d, content_prefs.pdf_text, sec, "pdf_text", owner)
     ELSE IF file_type = "txt"
     THEN RenderText(d, content_prefs.txt_content, sec, "txt_content", owner)
     ELSE <<>>)
    \o RenderXml(d, content_prefs.docx_xml, sec, owner)
    \o RenderForms(d, content_prefs.pdf_forms, sec, owner)

\* the isinstance(file_data, dict) branch, by detected file_type
RenderDict(d, content_prefs, sec, owner) ==
    LET file_type == GetField(d, "file_type", "unknown") IN
    IF file_type = "docx"
    THEN RenderText(d, content_prefs.docx_text, sec, "docx_text", owner)
         \o RenderXml(d, content_prefs.docx_xml, sec, owner)
    ELSE IF file_type = "pdf"
    THEN RenderText(d, content_prefs.pdf_text, sec, "pdf_text", owner)
         \o RenderForms(d, content_prefs.pdf_forms, sec, owner)
    ELSE IF file_type = "txt"
    THEN RenderText(d, content_prefs.txt_content, sec, "txt_content", owner)
    ELSE <<>>

RenderFileData(file_data, content_prefs, sec, owner) ==
    IF file_data.isdict
    THEN RenderDict(file_data.d, content_prefs, sec, owner)
    ELSE <<Line(strip(file_data.s), sec, "legacy", owner)>>

RECURSIVE ServerEntries(_, _)
ServerEntries(server_files_data, content_prefs) ==
    IF server_files_data = <<>> THEN <<>>
    ELSE <<Line("\n--- " \o upper(server_files_data[1].k) \o " ---", "server", "header",
                server_files_data[1].k)>>
         \o RenderFileData(server_files_data[1].v, content_prefs, "server", server_files_data[1].k)
         \o ServerEntries(Tail(server_files_data), content_prefs)

ServerSection(server_files_data, content_prefs) ==
    IF server_files_data # <<>>
    THEN <<Line("=== SERVER REFERENCE FILES ===", "server", "header", "")>>
         \o ServerEntries(server_files_data, content_prefs)
    ELSE <<>>

excluded_keys ==
    {"claude_prompt", "page_type", "page_title", "include_docx_text", "include_docx_xml",
     "include_pdf_text", "include_pdf_forms", "include_txt_content"}

RECURSIVE form_context(_)
form_context(form_data) ==
    IF form_data = <<>> THEN <<>>
    ELSE (IF form_data[1].k \notin excluded_keys /\ Truthy(strip(form_data[1].v))
          THEN <<[k |-> form_data[1].k, v |-> strip(form_data[1].v)]>>
          ELSE <<>>)
         \o form_context(Tail(form_data))

FormSection(form_data) ==
    LET fc == form_context(form_data) IN
    IF fc # <<>>
    THEN <<Line("\n=== FORM DATA ===", "form", "header", "")>>
         \o [i \in 1..Len(fc) |->
               Line(title(replace(fc[i].k, "_", " ")) \o ": " \o fc[i].v, "form", "field", fc[i].k)]
    ELSE <<>>

\* truthiness of a mapping value: a non-empty dict or a non-empty string
DataTruthy(file_data) == IF file_data.isdict THEN DOMAIN file_data.d # {} ELSE file_data.s # ""

RECURSIVE UploadedSection(_, _)
UploadedSection(uploaded_files_data, content_prefs) ==
    IF uploaded_files_data = <<>> THEN <<>>
    ELSE (IF DataTruthy(uploaded_files_data[1].v)
          THEN <<Line("\n=== UPLOADED " \o upper(uploaded_files_data[1].k) \o " CONTENT ===",
                      "upload", "header", uploaded_files_data[1].k)>>
               \o RenderFileData(uploaded_files_data[1].v, content_prefs, "upload",
                                 uploaded_files_data[1].k)
          ELSE <<>>)
         \o UploadedSection(Tail(uploaded_files_data), content_prefs)

\* context_sections with the form data put before the server files
context_sections_form_first(form_data, uploaded_files_data, server_files_data) ==
    LET content_prefs == get_content_preferences(form_data) IN
    FormSection(form_data)
    \o ServerSection(server_files_data, content_prefs)
    \o UploadedSection(uploaded_files_data, content_prefs)

context_sections(form_data, uploaded_files_data, server_files_data) ==
    LET content_prefs == get_content_preferences(form_data) IN
    ServerSection(server_files_data, content_prefs)
    \o FormSection(form_data)
    \o UploadedSection(uploaded_files_data, content_prefs)

\* build_claude_prompt testing and appending the field without strip()
build_claude_prompt_no_strip(form_data, uploaded_files_data, server_files_data) ==
    LET custom_prompt == Get(form_data, "claude_prompt", "")
        sections == context_sections(form_data, uploaded_files_data, server_files_data)
    IN  IF ~Truthy(custom_prompt)
        THEN [prompt_none |-> TRUE, prompt |-> "", error_none |-> FALSE,
              error |-> "No Claude prompt provided", sections |-> <<>>]
        ELSE [prompt_none |-> FALSE,
              prompt |-> IF sections # <<>>
                         THEN join("\n", Texts(sections)) \o "\n\n" \o custom_prompt
                         ELSE custom_prompt,
              error_none |-> TRUE, error |-> "", sections |-> sections]

\* build_claude_prompt joining the instruction with a single newline
build_claude_prompt_one_newline(form_data, uploaded_files_data, server_files_data) ==
    LET custom_prompt == strip(Get(form_data, "claude_prompt", ""))
        sections == context_sections(form_data, uploaded_files_data, server_files_data)
    IN  IF ~Truthy(custom_prompt)
        THEN [prompt_none |-> TRUE, prompt |-> "", error_none |-> FALSE,
              error |-> "No Claude prompt provided", sections |-> <<>>]
        ELSE [prompt_none |-> FALSE,
              prompt |-> IF sections # <<>>
                         THEN join("\n", Texts(sections)) \o "\n" \o custom_prompt
                         ELSE custom_prompt,
              error_none |-> TRUE, error |-> "", sections |-> sections]

\* page_handlers.build_claude_prompt: (full_prompt, None) or (None, error)
build_claude_prompt(form_data, uploaded_files_data, server_files_data) ==
    LET custom_prompt == strip(Get(form_data, "claude_prompt", ""))
        sections == context_sections(form_data, uploaded_files_data, server_files_data)
    IN  IF ~Truthy(custom_prompt)
        THEN [prompt_none |-> TRUE, prompt |-> "", error_none |-> FALSE,
              error |-> "No Claude prompt provided", sections |-> <<>>]
        ELSE [prompt_none |-> FALSE,
              prompt |-> IF sections # <<>>
                         THEN join("\n", Texts(sections)) \o "\n\n" \o custom_prompt
                         ELSE custom_prompt,
              error_none |-> TRUE, error |-> "", sections |-> sections]

(***************************************************************************)
(* Document extractor                                                      *)
(*                                                                         *)
(* The bytes of a file are kept as what the parsing libraries make of      *)
(* them: doc = [text_fails, cause, text, xml, forms].  text_fails says     *)
(* that text extraction raises (a corrupt archive, a PDF no page of which  *)
(* yields text, bytes that are not UTF-8), cause is the message.           *)
(***************************************************************************)
Raised(msg) == [raised |-> TRUE, error |-> msg, none |-> FALSE, data |-> <<>>]
Result(data) == [raised |-> FALSE, error |-> "", none |-> FALSE, data |-> data]
None == [raised |-> FALSE, error |-> "", none |-> TRUE, data |-> <<>>]

\* process_uploaded_file; app.py repeats it word for word
process_uploaded_file(file, doc) ==
    IF ~file.present \/ file.filename = "" THEN None
    ELSE IF file.size - file.pos = 0 THEN Raised("File is empty")
    ELSE IF endswith(lower(file.filename), ".docx")
    THEN IF doc.text_fails \/ file.pos # 0
         THEN Raised("Failed to extract text from Word document: " \o doc.cause)
         ELSE Result([text_content |-> doc.text, xml_structure |-> doc.xml, file_type |-> "docx"])
    ELSE IF endswith(lower(file.filename), ".pdf")
    THEN IF doc.text_fails \/ file.pos # 0
         THEN Raised("Failed to extract text from PDF document: " \o doc.cause)
         ELSE Result([text_content |-> doc.text, form_data |-> doc.forms, file_type |-> "pdf"])
    ELSE IF endswith(lower(file.filename), ".txt")
    THEN IF doc.text_fails
         THEN Raised(doc.cause)
         ELSE Result([text_content |-> SubSeq(doc.text, file.pos + 1, Len(doc.text)),
                      file_type |-> "txt"])
    ELSE Raised("Unsupported file type. Please upload .docx, .pdf, or .txt files only.")

\* process_server_file keeping the XML structure for a PDF too
process_server_file_xml_for_pdf(file_path, doc) ==
    IF endswith(lower(file_path), ".docx")
    THEN IF doc.text_fails THEN None
         ELSE Result([text_content |-> doc.text, xml_structure |-> doc.xml, file_type |-> "docx"])
    ELSE IF endswith(lower(file_path), ".pdf")
    THEN IF doc.text_fails THEN None
         ELSE Result([text_content |-> doc.text, xml_structure |-> doc.xml,
                      form_data |-> doc.forms, file_type |-> "pdf"])
    ELSE IF endswith(lower(file_path), ".txt")
    THEN IF doc.text_fails THEN None
         ELSE Result([text_content |-> doc.text, file_type |-> "txt"])
    ELSE None

\* process_server_file on a path the directory listing gave: the dict, or None
\* for an unsupported extension and for any exception
process_server_file(file_path, doc) ==
    IF endswith(lower(file_path), ".docx")
    THEN IF doc.text_fails THEN None
         ELSE Result([text_content |-> doc.text, xml_structure |-> doc.xml, file_type |-> "docx"])
    ELSE IF endswith(lower(file_path), ".pdf")
    THEN IF doc.text_fails THEN None
         ELSE Result([text_content |-> doc.text, form_data |-> doc.forms, file_type |-> "pdf"])
    ELSE IF endswith(lower(file_path), ".txt")
    THEN IF doc.text_fails THEN None
         ELSE Result([text_content |-> doc.text, file_type |-> "txt"])
    ELSE None

\* process_uploaded_file_steps decoding the content of any other file as text
process_uploaded_file_steps_decode_any(file, doc) ==
    IF ~file.present \/ file.filename = "" THEN <<>>
    ELSE IF file.size - file.pos = 0 THEN <<>>
    ELSE IF endswith(lower(file.filename), ".docx")
    THEN IF doc.text_fails \/ file.pos # 0 THEN <<"extract_text_from_docx">>
         ELSE <<"extract_text_from_docx", "extract_xml_from_docx">>
    ELSE IF endswith(lower(file.filename), ".pdf")
    THEN IF doc.text_fails \/ file.pos # 0 THEN <<"extract_text_from_pdf">>
         ELSE <<"extract_text_from_pdf", "extract_form_data_from_pdf">>
    ELSE <<"decode">>

\* the parsing steps process_uploaded_file attempts on the content, in order;
\* an exception of the text extractor ends them
process_uploaded_file_steps(file, doc) ==
    IF ~file.present \/ file.filename = "" THEN <<>>
    ELSE IF file.size - file.pos = 0 THEN <<>>
    ELSE IF endswith(lower(file.filename), ".docx")
    THEN IF doc.text_fails \/ file.pos # 0 THEN <<"extract_text_from_docx">>
         ELSE <<"extract_text_from_docx", "extract_xml_from_docx">>
    ELSE IF endswith(lower(file.filename), ".pdf")
    THEN IF doc.text_fails \/ file.pos # 0 THEN <<"extract_text_from_pdf">>
         ELSE <<"extract_text_from_pdf", "extract_form_data_from_pdf">>
    ELSE IF endswith(lower(file.filename), ".txt") THEN <<"decode">>
    ELSE <<>>

\* the parsing steps process_server_file attempts on the content, in order
process_server_file_steps(file_path, doc) ==
    IF endswith(lower(file_path), ".docx")
    THEN IF doc.text_fails THEN <<"extract_text_from_docx">>
         ELSE <<"extract_text_from_docx", "extract_xml_from_docx">>
    ELSE IF endswith(lower(file_path), ".pdf")
    THEN IF doc.text_fails THEN <<"extract_text_from_pdf">>
         ELSE <<"extract_text_from_pdf", "extract_form_data_from_pdf">>
    ELSE IF endswith(lower(file_path), ".txt") THEN <<"decode">>
    ELSE <<>>

\* what process_server_file logs as a warning or an error, "" when it loads the file
process_server_file_log(file_path, doc) ==
    LET failed(e) == "Error processing server file " \o file_path \o ": " \o e IN
    IF endswith(lower(file_path), ".docx")
    THEN IF doc.text_fails
         THEN failed("Failed to extract text from Word document: " \o doc.cause) ELSE ""
    ELSE IF endswith(lower(file_path), ".pdf")
    THEN IF doc.text_fails
         THEN failed("Failed to extract text from PDF document: " \o doc.cause) ELSE ""
    ELSE IF endswith(lower(file_path), ".txt")
    THEN IF doc.text_fails THEN failed(doc.cause) ELSE ""
    ELSE "Unsupported server file type: " \o file_path

(***************************************************************************)
(* Server file loader, one directory                                       *)
(*                                                                         *)
(* The tree under /app/server_files is an ordered dict from directory name *)
(* to its listing, a sequence of [name, isfile, doc] in os.listdir order.  *)
(***************************************************************************)
\* the position of the last "." of p, 0 when it has none
RECURSIVE rfind_dot(_)
rfind_dot(p) ==
    IF p = "" THEN 0
    ELSE IF CharAt(p, Len(p)) = "." THEN Len(p)
    ELSE rfind_dot(SubSeq(p, 1, Len(p) - 1))

\* os.path.splitext(filename)[0]: the extension starts at the last dot,
\* unless only dots precede it
splitext_root(filename) ==
    LET dot == rfind_dot(filename) IN
    IF dot > 0 /\ \E i \in 1..(dot - 1) : CharAt(filename, i) # "."
    THEN SubSeq(filename, 1, dot - 1)
    ELSE filename

file_key(filename) == replace(replace(splitext_root(filename), "_", " "), "-", " ")

\* the single-directory loop with the key-conflict check of the multi-directory loop
RECURSIVE LoadListing_first_wins(_, _, _)
LoadListing_first_wins(listing, server_dir, server_files) ==
    IF listing = <<>> THEN server_files
    ELSE LET entry == listing[1]
             file_data == process_server_file(server_dir \o "/" \o entry.name, entry.doc)
         IN  LoadListing_first_wins(Tail(listing), server_dir,
                 IF entry.isfile /\ ~file_data.none /\ ~HasKey(server_files, file_key(entry.name))
                 THEN Put(server_files, file_key(entry.name), Dict(file_data.data))
                 ELSE server_files)

\* the single-directory loop left at the first entry that does not load
RECURSIVE LoadListing_stop_at_failure(_, _, _)
LoadListing_stop_at_failure(listing, server_dir, server_files) ==
    IF listing = <<>> THEN server_files
    ELSE LET entry == listing[1]
             file_data == process_server_file(server_dir \o "/" \o entry.name, entry.doc)
         IN  IF entry.isfile /\ ~file_data.none
             THEN LoadListing_stop_at_failure(Tail(listing), server_dir,
                      Put(server_files, file_key(entry.name), Dict(file_data.data)))
             ELSE server_files

RECURSIVE LoadListing(_, _, _)
LoadListing(listing, server_dir, server_files) ==
    IF listing = <<>> THEN server_files
    ELSE LET entry == listing[1]
             file_data == process_server_file(server_dir \o "/" \o entry.name, entry.doc)
         IN  LoadListing(Tail(listing), server_dir,
                         IF entry.isfile /\ ~file_data.none /\ DOMAIN file_data.data # {}
                         THEN Put(server_files, file_key(entry.name), Dict(file_data.data))
                         ELSE server_files)

\* app.load_server_files(page_name), the text of the single-directory mode
\* of file_processors.load_server_files
app_load_server_files(fs, page_name) ==
    IF ~HasKey(fs, page_name) THEN <<>>
    ELSE LoadListing(Get(fs, page_name, <<>>), "/app/server_files/" \o page_name, <<>>)

(***************************************************************************)
(* Text extractors                                                         *)
(*                                                                         *)
(* A PDF is what PyPDF2 makes of the bytes: [readable, cause, pages], with *)
(* readable FALSE when PdfReader raises with message cause, and each page  *)
(* [fails, text]: extract_text() raises, or returns text.                  *)
(***************************************************************************)
Extracted(text) == [raised |-> FALSE, error |-> "", text |-> text]
ExtractFailed(msg) == [raised |-> TRUE, error |-> msg, text |-> ""]

\* the header counting the pages emitted so far instead of the page's position
RECURSIVE PageTexts_emitted_count(_, _)
PageTexts_emitted_count(pages, page_num) ==
    IF pages = <<>> THEN <<>>
    ELSE IF ~pages[1].fails /\ strip(pages[1].text) # ""
    THEN <<"--- Page " \o ToString(page_num + 1) \o " ---", strip(pages[1].text)>>
         \o PageTexts_emitted_count(Tail(pages), page_num + 1)
    ELSE PageTexts_emitted_count(Tail(pages), page_num)

\* the list text after the pages from page_num on
RECURSIVE PageTexts(_, _)
PageTexts(pages, page_num) ==
    IF pages = <<>> THEN <<>>
    ELSE (IF ~pages[1].fails /\ strip(pages[1].text) # ""
          THEN <<"--- Page " \o ToString(page_num + 1) \o " ---", strip(pages[1].text)>>
          ELSE <<>>)
         \o PageTexts(Tail(pages), page_num + 1)

\* extract_text_from_pdf returning the joined text even when no page gave any
extract_text_from_pdf_empty_result(pdf) ==
    IF ~pdf.readable
    THEN ExtractFailed("Failed to extract text from PDF document: " \o pdf.cause)
    ELSE Extracted(join("\n", PageTexts(pdf.pages, 0)))

\* file_processors.extract_text_from_pdf
extract_text_from_pdf(pdf) ==
    IF ~pdf.readable
    THEN ExtractFailed("Failed to extract text from PDF document: " \o pdf.cause)
    ELSE LET text == PageTexts(pdf.pages, 0) IN
         IF text = <<>>
         THEN ExtractFailed("Failed to extract text from PDF document: "
                                \o "No text could be extracted from the PDF")
         ELSE Extracted(join("\n", text))

\* A Word document is what python-docx makes of the bytes: [readable, cause,
\* body], with readable FALSE when Document() raises with message cause, and
\* body the paragraphs and tables of the document body in document order,
\* each [kind, text, rows]: kind "p" with its text, or kind "tbl" with its
\* rows, a row being the sequence of its cells' texts.
Paragraph(text) == [kind |-> "p", text |-> text, rows |-> <<>>]
Table(rows) == [kind |-> "tbl", text |-> "", rows |-> rows]

\* doc.paragraphs and doc.tables: the blocks of one kind, in document order
BlocksOf(body, kind) == LET Is(b) == b.kind = kind IN SelectSeq(body, Is)

\* the stripped texts of the paragraphs that are not blank
ParagraphTexts(paragraphs) ==
    LET NotBlank(b) == strip(b.text) # ""
        kept == SelectSeq(paragraphs, NotBlank)
    IN  [i \in 1..Len(kept) |-> strip(kept[i].text)]

\* row_text joined by " | ", for the rows with a cell that is not blank
RowTexts(rows) ==
    LET NotBlank(c) == strip(c) # ""
        Cells(row) == LET kept == SelectSeq(row, NotBlank)
                      IN  [i \in 1..Len(kept) |-> strip(kept[i])]
        HasCells(row) == Cells(row) # <<>>
        kept_rows == SelectSeq(rows, HasCells)
    IN  [i \in 1..Len(kept_rows) |-> join(" | ", Cells(kept_rows[i]))]

RECURSIVE TableTexts(_)
TableTexts(tables) ==
    IF tables = <<>> THEN <<>>
    ELSE RowTexts(tables[1].rows) \o TableTexts(Tail(tables))

\* file_processors.extract_text_from_docx
extract_text_from_docx(docx) ==
    IF ~docx.readable
    THEN ExtractFailed("Failed to extract text from Word document: " \o docx.cause)
    ELSE Extracted(join("\n", ParagraphTexts(BlocksOf(docx.body, "p"))
                                  \o TableTexts(BlocksOf(docx.body, "tbl"))))

(***************************************************************************)
(* Server file loader of file_processors, one or several directories       *)
(***************************************************************************)
\* prefixed_key prefixing the files of the page's own directory too
prefixed_key_every_directory(directory, page_name, filename) ==
    directory \o " - " \o file_key(filename)

\* the key of a file of directory in multi-directory mode
prefixed_key(directory, page_name, filename) ==
    IF directory = page_name THEN file_key(filename)
    ELSE directory \o " - " \o file_key(filename)

\* LoadListingMulti putting a later file with the same key in place of the first
RECURSIVE LoadListingMulti_last_wins(_, _, _, _)
LoadListingMulti_last_wins(listing, directory, page_name, server_files) ==
    IF listing = <<>> THEN server_files
    ELSE LET entry == listing[1]
             file_data == process_server_file("/app/server_files/" \o directory \o "/" \o entry.name, entry.doc)
             key == prefixed_key(directory, page_name, entry.name)
         IN  LoadListingMulti_last_wins(Tail(listing), directory, page_name,
                 IF entry.isfile /\ ~file_data.none /\ DOMAIN file_data.data # {}
                 THEN Put(server_files, key, Dict(file_data.data))
                 ELSE server_files)

\* the loop over the files of one directory in multi-directory mode
RECURSIVE LoadListingMulti(_, _, _, _)
LoadListingMulti(listing, directory, page_name, server_files) ==
    IF listing = <<>> THEN server_files
    ELSE LET entry == listing[1]
             file_data == process_server_file("/app/server_files/" \o directory \o "/" \o entry.name, entry.doc)
             key == prefixed_key(directory, page_name, entry.name)
         IN  LoadListingMulti(Tail(listing), directory, page_name,
                 IF entry.isfile /\ ~file_data.none /\ DOMAIN file_data.data # {}
                      /\ ~HasKey(server_files, key)
                 THEN Put(server_files, key, Dict(file_data.data))
                 ELSE server_files)

\* the loop over the directories; one that does not exist is skipped
RECURSIVE LoadDirectories(_, _, _, _)
LoadDirectories(fs, page_name, directories, server_files) ==
    IF directories = <<>> THEN server_files
    ELSE LoadDirectories(fs, page_name, Tail(directories),
             IF HasKey(fs, directories[1])
             THEN LoadListingMulti(Get(fs, directories[1], <<>>), directories[1], page_name,
                                   server_files)
             ELSE server_files)

\* file_processors.load_server_files(page_name, directories)
load_server_files(fs, page_name, directories) ==
    LET dirs == IF directories.given THEN directories.dirs ELSE <<page_name>> IN
    IF Len(dirs) = 1
    THEN IF ~HasKey(fs, dirs[1]) THEN <<>>
         ELSE LoadListing(Get(fs, dirs[1], <<>>), "/app/server_files/" \o dirs[1], <<>>)
    ELSE LoadDirectories(fs, page_name, dirs, <<>>)

(***************************************************************************)
(* The handlers of app.py, which generic_api calls.  They take the mapping *)
(* values for plain strings: strip() and join() raise on a dict.           *)
(***************************************************************************)
PreviewMax == 500

Err(status, msg) == [status |-> status, error |-> msg, body |-> <<>>]
Ok(body) == [status |-> 200, error |-> "", body |-> body]

AnyDict(mapping) == \E i \in 1..Len(mapping) : mapping[i].v.isdict

\* content[:500] + "..." if len(content) > 500 else content
Preview(content) ==
    IF Len(content) > PreviewMax THEN SubSeq(content, 1, PreviewMax) \o "..." ELSE content

\* the non-empty fields other than page_type and page_title
CompletedFields(form_data) ==
    LET Counts(f) == f.k \notin {"page_type", "page_title"} /\ strip(f.v) # "" IN
    SelectSeq(form_data, Counts)

RECURSIVE AppPreviews(_)
AppPreviews(mapping) ==
    IF mapping = <<>> THEN <<>>
    ELSE <<"### " \o title(mapping[1].k), "", Preview(mapping[1].v.s), "">>
         \o AppPreviews(Tail(mapping))

AppNoCallContent(page_name, form_data, uploaded_files_text, server_files_text) ==
    LET fields == CompletedFields(form_data) IN
    <<"# " \o Get(form_data, "page_title", title(replace(page_name, "-", " "))), "">>
    \o (IF server_files_text # <<>>
        THEN <<"## Reference Materials", "">> \o AppPreviews(server_files_text) ELSE <<>>)
    \o (IF form_data # <<>>
        THEN <<"## Submitted Information", "">>
             \o [i \in 1..Len(fields) |->
                   "**" \o title(replace(fields[i].k, "_", " ")) \o ":** " \o fields[i].v]
             \o <<"">>
        ELSE <<>>)
    \o (IF uploaded_files_text # <<>>
        THEN <<"## Uploaded Documents", "">> \o AppPreviews(uploaded_files_text) ELSE <<>>)
    \o <<"## Summary", "",
         "- **Server Reference Files:** " \o ToString(Len(server_files_text)),
         "- **Uploaded Documents:** " \o ToString(Len(uploaded_files_text)),
         "- **Form Fields Completed:** " \o ToString(Len(fields)),
         "- **Total Items Processed:** "
             \o ToString(Len(server_files_text) + Len(uploaded_files_text) + Len(fields))>>

FieldsReceived(form_data, hidden) ==
    LET Shown(f) == f.k \notin hidden IN Keys(SelectSeq(form_data, Shown))

\* app.handle_no_call_page: a dict among the previews makes join() raise
app_handle_no_call_page(page_name, form_data, uploaded_files_text, server_files_text, session_id) ==
    IF AnyDict(server_files_text) \/ AnyDict(uploaded_files_text)
    THEN Err(500, "Error processing no-call page")
    ELSE Ok([success |-> TRUE,
             content |-> join("\n", AppNoCallContent(page_name, form_data, uploaded_files_text,
                                                     server_files_text)),
             session_id |-> session_id,
             page_type |-> "no-call",
             files_processed |-> Keys(uploaded_files_text),
             server_files_loaded |-> Keys(server_files_text),
             form_fields_received |-> FieldsReceived(form_data, {"page_type", "page_title"})])

RECURSIVE AppServerLines(_)
AppServerLines(server_files_text) ==
    IF server_files_text = <<>> THEN <<>>
    ELSE <<"\n--- " \o upper(server_files_text[1].k) \o " ---", strip(server_files_text[1].v.s)>>
         \o AppServerLines(Tail(server_files_text))

RECURSIVE AppUploadLines(_)
AppUploadLines(uploaded_files_text) ==
    IF uploaded_files_text = <<>> THEN <<>>
    ELSE (IF strip(uploaded_files_text[1].v.s) # ""
          THEN <<"\n=== UPLOADED " \o upper(uploaded_files_text[1].k) \o " CONTENT ===",
                 strip(uploaded_files_text[1].v.s)>>
          ELSE <<>>)
         \o AppUploadLines(Tail(uploaded_files_text))

AppFormLines(form_data) ==
    LET Kept(f) == f.k # "claude_prompt" /\ strip(f.v) # ""
        fc == SelectSeq(form_data, Kept)
    IN  IF fc # <<>>
        THEN <<"\n=== FORM DATA ===">>
             \o [i \in 1..Len(fc) |-> title(replace(fc[i].k, "_", " ")) \o ": " \o strip(fc[i].v)]
        ELSE <<>>

\* app.build_claude_prompt without the test of the instruction
app_build_claude_prompt_no_check(form_data, uploaded_files_text, server_files_text) ==
    LET custom_prompt == strip(Get(form_data, "claude_prompt", "")) IN
    IF AnyDict(server_files_text) \/ AnyDict(uploaded_files_text)
    THEN [raised |-> TRUE, prompt_none |-> TRUE, prompt |-> "",
          error |-> "'dict' object has no attribute 'strip'"]
    ELSE [raised |-> FALSE, prompt_none |-> FALSE, prompt |-> custom_prompt, error |-> ""]

\* app.build_claude_prompt: (prompt, None), (None, error), or AttributeError
\* from strip() on a dict
app_build_claude_prompt(form_data, uploaded_files_text, server_files_text) ==
    LET custom_prompt == strip(Get(form_data, "claude_prompt", "")) IN
    IF custom_prompt = ""
    THEN [raised |-> FALSE, prompt_none |-> TRUE, prompt |-> "",
          error |-> "No Claude prompt provided"]
    ELSE IF AnyDict(server_files_text) \/ AnyDict(uploaded_files_text)
    THEN [raised |-> TRUE, prompt_none |-> TRUE, prompt |-> "",
          error |-> "'dict' object has no attribute 'strip'"]
    ELSE LET context ==
                 (IF server_files_text # <<>>
                  THEN <<"=== SERVER REFERENCE FILES ===">> \o AppServerLines(server_files_text)
                  ELSE <<>>)
                 \o AppFormLines(form_data)
                 \o AppUploadLines(uploaded_files_text)
         IN  [raised |-> FALSE, prompt_none |-> FALSE,
              prompt |-> IF context # <<>>
                         THEN join("\n", context) \o "\n\n" \o custom_prompt
                         ELSE custom_prompt,
              error |-> ""]

\* app.handle_claude_call_page with the prompt built before the client is looked at
app_handle_claude_call_page_late_check(page_name, form_data, uploaded_files_text, server_files_text, session_id, claude_client, api_error) ==
    LET built == app_build_claude_prompt(form_data, uploaded_files_text, server_files_text) IN
    IF built.raised
    THEN [resp |-> Err(500, "Error generating content: " \o built.error),
          steps |-> <<"build_claude_prompt">>, calls |-> 0]
    ELSE IF built.prompt_none
    THEN [resp |-> Err(400, built.error), steps |-> <<"build_claude_prompt">>, calls |-> 0]
    ELSE IF ~claude_client
    THEN [resp |-> Err(503, "Claude API not available"),
          steps |-> <<"build_claude_prompt">>, calls |-> 0]
    ELSE IF api_error # ""
    THEN [resp |-> Err(500, "Error generating content: " \o api_error),
          steps |-> <<"build_claude_prompt", "messages.create">>, calls |-> 1]
    ELSE [resp |-> Ok([success |-> TRUE, content |-> "<generated>", session_id |-> session_id,
                       page_type |-> "claude-call",
                       files_processed |-> Keys(uploaded_files_text),
                       server_files_loaded |-> Keys(server_files_text),
                       form_fields_received |-> FieldsReceived(form_data, {"claude_prompt"})]),
          steps |-> <<"build_claude_prompt", "messages.create">>, calls |-> 1]

\* app.handle_claude_call_page reporting the builder's error as an internal failure
app_handle_claude_call_page_builder_500(page_name, form_data, uploaded_files_text, server_files_text, session_id, claude_client, api_error) ==
    IF ~claude_client
    THEN [resp |-> Err(503, "Claude API not available"), steps |-> <<>>, calls |-> 0]
    ELSE LET built == app_build_claude_prompt(form_data, uploaded_files_text, server_files_text)
         IN  IF built.raised
             THEN [resp |-> Err(500, "Error generating content: " \o built.error),
                   steps |-> <<"build_claude_prompt">>, calls |-> 0]
             ELSE IF built.prompt_none
             THEN [resp |-> Err(500, built.error), steps |-> <<"build_claude_prompt">>,
                   calls |-> 0]
             ELSE IF api_error # ""
             THEN [resp |-> Err(500, "Error generating content: " \o api_error),
                   steps |-> <<"build_claude_prompt", "messages.create">>, calls |-> 1]
             ELSE [resp |-> Ok([success |-> TRUE, content |-> "<generated>",
                                session_id |-> session_id, page_type |-> "claude-call",
                                files_processed |-> Keys(uploaded_files_text),
                                server_files_loaded |-> Keys(server_files_text),
                                form_fields_received |->
                                    FieldsReceived(form_data, {"claude_prompt"})]),
                   steps |-> <<"build_claude_prompt", "messages.create">>, calls |-> 1]

\* app.handle_claude_call_page: the response, the steps taken in order and
\* the number of calls of the remote API.  api_error is the message of the
\* exception the remote call raises, "" when it returns.
app_handle_claude_call_page(page_name, form_data, uploaded_files_text, server_files_text, session_id, claude_client, api_error) ==
    IF ~claude_client
    THEN [resp |-> Err(503, "Claude API not available"), steps |-> <<>>, calls |-> 0]
    ELSE LET built == app_build_claude_prompt(form_data, uploaded_files_text, server_files_text)
         IN  IF built.raised
             THEN [resp |-> Err(500, "Error generating content: " \o built.error),
                   steps |-> <<"build_claude_prompt">>, calls |-> 0]
             ELSE IF built.prompt_none
             THEN [resp |-> Err(400, built.error), steps |-> <<"build_claude_prompt">>,
                   calls |-> 0]
             ELSE IF api_error # ""
             THEN [resp |-> Err(500, "Error generating content: " \o api_error),
                   steps |-> <<"build_claude_prompt", "messages.create">>, calls |-> 1]
             ELSE [resp |-> Ok([success |-> TRUE, content |-> "<generated>",
                                session_id |-> session_id, page_type |-> "claude-call",
                                files_processed |-> Keys(uploaded_files_text),
                                server_files_loaded |-> Keys(server_files_text),
                                form_fields_received |->
                                    FieldsReceived(form_data, {"claude_prompt"})]),
                   steps |-> <<"build_claude_prompt", "messages.create">>, calls |-> 1]

(***************************************************************************)
(* The handlers of page_handlers.py, on extracted-document dicts           *)
(***************************************************************************)
\* utils.truncate_text
truncate_text(text, max_length) ==
    IF Len(text) <= max_length THEN text ELSE SubSeq(text, 1, max_length) \o "..."

\* utils.count_form_fields
count_form_fields(form_data, exclude_keys) ==
    LET Counts(f) == f.k \notin exclude_keys /\ strip(f.v) # "" IN
    Len(SelectSeq(form_data, Counts))

summary_excluded ==
    {"page_type", "page_title", "include_docx_text", "include_docx_xml", "include_pdf_text",
     "include_pdf_forms", "include_txt_content"}

Included(flag) == IF flag THEN "Included" ELSE "Excluded"
Processed(flag) == IF flag THEN "Processed" ELSE "Skipped"

\* the text flag of the entry's own type is on
TextEnabled(file_type, content_prefs) ==
    \/ file_type = "docx" /\ content_prefs.docx_text
    \/ file_type = "pdf" /\ content_prefs.pdf_text
    \/ file_type = "txt" /\ content_prefs.txt_content

HasText(d) == HasField(d, "text_content") /\ Truthy(d.text_content)

ServerEntrySummary(d, content_prefs) ==
    LET file_type == GetField(d, "file_type", "unknown")
        has_xml == file_type = "docx" /\ HasField(d, "xml_structure") /\ d.xml_structure # <<>>
        has_forms == file_type = "pdf" /\ HasField(d, "form_data") /\ d.form_data # <<>>
        available_content ==
            (IF HasText(d) THEN <<"Text Content">> ELSE <<>>)
            \o (IF has_xml THEN <<"XML Structure">> ELSE <<>>)
            \o (IF has_forms THEN <<"Form Data">> ELSE <<>>)
        included_content ==
            (IF HasText(d) /\ TextEnabled(file_type, content_prefs)
             THEN <<"Text Content">> ELSE <<>>)
            \o (IF has_xml /\ content_prefs.docx_xml THEN <<"XML Structure">> ELSE <<>>)
            \o (IF has_forms /\ content_prefs.pdf_forms THEN <<"Form Data">> ELSE <<>>)
    IN  <<"**File Type:** " \o upper(file_type)>>
        \o (IF available_content # <<>>
            THEN <<"**Available Content:** " \o join(", ", available_content),
                   "**Included Content:** "
                       \o (IF included_content # <<>> THEN join(", ", included_content)
                           ELSE "None")>>
            ELSE <<>>)
        \o (IF included_content # <<>> /\ HasText(d) /\ TextEnabled(file_type, content_prefs)
            THEN <<"**Text Content Preview:**", truncate_text(d.text_content, PreviewMax)>>
            ELSE <<>>)

RECURSIVE ReferenceMaterials(_, _)
ReferenceMaterials(server_files_data, content_prefs) ==
    IF server_files_data = <<>> THEN <<>>
    ELSE <<"### " \o title(server_files_data[1].k), "">>
         \o (IF server_files_data[1].v.isdict
             THEN ServerEntrySummary(server_files_data[1].v.d, content_prefs)
             ELSE <<truncate_text(server_files_data[1].v.s, PreviewMax)>>)
         \o <<"">>
         \o ReferenceMaterials(Tail(server_files_data), content_prefs)

UploadEntrySummary(d, content_prefs) ==
    LET data_file_type == GetField(d, "file_type", "unknown") IN
    <<"**File Type:** " \o upper(data_file_type)>>
    \o (IF data_file_type = "docx"
        THEN <<"**Text Content:** " \o Processed(content_prefs.docx_text),
               "**XML Structure:** " \o Processed(content_prefs.docx_xml)>>
        ELSE IF data_file_type = "pdf"
        THEN <<"**Text Content:** " \o Processed(content_prefs.pdf_text),
               "**Form Data:** " \o Processed(content_prefs.pdf_forms)>>
        ELSE IF data_file_type = "txt"
        THEN <<"**Content:** " \o Processed(content_prefs.txt_content)>>
        ELSE <<>>)
    \o (IF HasText(d) /\ TextEnabled(data_file_type, content_prefs)
        THEN <<"**Text Content Preview:**", truncate_text(d.text_content, PreviewMax)>>
        ELSE <<>>)

RECURSIVE UploadedDocuments(_, _)
UploadedDocuments(uploaded_files_data, content_prefs) ==
    IF uploaded_files_data = <<>> THEN <<>>
    ELSE <<"### " \o title(uploaded_files_data[1].k), "">>
         \o (IF uploaded_files_data[1].v.isdict
             THEN UploadEntrySummary(uploaded_files_data[1].v.d, content_prefs)
             ELSE <<truncate_text(uploaded_files_data[1].v.s, PreviewMax)>>)
         \o <<"">>
         \o UploadedDocuments(Tail(uploaded_files_data), content_prefs)

\* NoCallSummary with a total that leaves out the form fields
NoCallSummary_files_only(form_data, uploaded_files_data, server_files_data) ==
    LET fields == count_form_fields(form_data, summary_excluded)
        total_items == Len(server_files_data) + Len(uploaded_files_data)
    IN  <<"## Summary", "",
          "- **Server Reference Files:** " \o ToString(Len(server_files_data)),
          "- **Uploaded Documents:** " \o ToString(Len(uploaded_files_data)),
          "- **Form Fields Completed:** " \o ToString(fields),
          "- **Total Items Processed:** " \o ToString(total_items)>>

NoCallSummary(form_data, uploaded_files_data, server_files_data) ==
    LET fields == count_form_fields(form_data, summary_excluded)
        total_items == Len(server_files_data) + Len(uploaded_files_data) + fields
    IN  <<"## Summary", "",
          "- **Server Reference Files:** " \o ToString(Len(server_files_data)),
          "- **Uploaded Documents:** " \o ToString(Len(uploaded_files_data)),
          "- **Form Fields Completed:** " \o ToString(fields),
          "- **Total Items Processed:** " \o ToString(total_items)>>

NoCallContent(page_name, form_data, uploaded_files_data, server_files_data) ==
    LET content_prefs == get_content_preferences(form_data)
        Shown(f) == f.k \notin summary_excluded /\ strip(f.v) # ""
        fields == SelectSeq(form_data, Shown)
    IN  <<"# " \o Get(form_data, "page_title", title(replace(page_name, "-", " "))), "",
          "## Content Processing Settings", "",
          "- **DOCX Text Content:** " \o Included(content_prefs.docx_text),
          "- **DOCX XML Structure:** " \o Included(content_prefs.docx_xml),
          "- **PDF Text Content:** " \o Included(content_prefs.pdf_text),
          "- **PDF Form Data:** " \o Included(content_prefs.pdf_forms),
          "- **TXT Content:** " \o Included(content_prefs.txt_content), "">>
        \o (IF server_files_data # <<>>
            THEN <<"## Reference Materials", "">>
                 \o ReferenceMaterials(server_files_data, content_prefs)
            ELSE <<>>)
        \o (IF form_data # <<>>
            THEN <<"## Submitted Information", "">>
                 \o [i \in 1..Len(fields) |->
                       "**" \o title(replace(fields[i].k, "_", " ")) \o ":** " \o fields[i].v]
                 \o <<"">>
            ELSE <<>>)
        \o (IF uploaded_files_data # <<>>
            THEN <<"## Uploaded Documents", "">>
                 \o UploadedDocuments(uploaded_files_data, content_prefs)
            ELSE <<>>)
        \o NoCallSummary(form_data, uploaded_files_data, server_files_data)

\* page_handlers.handle_no_call_page: nothing in its try block raises on
\* strings and extracted-document dicts, so the except branch is not taken
handle_no_call_page(page_name, form_data, uploaded_files_data, server_files_data, session_id) ==
    [resp |-> Ok([success |-> TRUE,
                  content |-> join("\n", NoCallContent(page_name, form_data,
                                                       uploaded_files_data, server_files_data)),
                  session_id |-> session_id,
                  page_type |-> "no-call",
                  files_processed |-> Keys(uploaded_files_data),
                  server_files_loaded |-> Keys(server_files_data),
                  form_fields_received |-> FieldsReceived(form_data, {"page_type", "page_title"}),
                  content_preferences |-> get_content_preferences(form_data)]),
     steps |-> <<>>, calls |-> 0]

\* handle_claude_call_page calling the remote API a second time after an exception
handle_claude_call_page_retry(page_name, form_data, uploaded_files_data, server_files_data, session_id, claude_client, api_error) ==
    IF ~claude_client
    THEN [resp |-> Err(503, "Claude API not available"), steps |-> <<>>, calls |-> 0]
    ELSE LET built == build_claude_prompt(form_data, uploaded_files_data, server_files_data) IN
         IF ~built.error_none /\ built.error # ""
         THEN [resp |-> Err(400, built.error), steps |-> <<"build_claude_prompt">>, calls |-> 0]
         ELSE IF api_error # ""
         THEN [resp |-> Err(500, "Error generating content: " \o api_error),
               steps |-> <<"build_claude_prompt", "messages.create", "messages.create">>,
               calls |-> 2]
         ELSE [resp |-> Ok([success |-> TRUE, content |-> "<generated>",
                            session_id |-> session_id, page_type |-> "claude-call",
                            files_processed |-> Keys(uploaded_files_data),
                            server_files_loaded |-> Keys(server_files_data),
                            form_fields_received |-> FieldsReceived(form_data, {"claude_prompt"}),
                            content_preferences |-> get_content_preferences(form_data)]),
               steps |-> <<"build_claude_prompt", "messages.create">>, calls |-> 1]

\* page_handlers.handle_claude_call_page: the response, the steps taken in
\* order and the number of calls of the remote API
handle_claude_call_page(page_name, form_data, uploaded_files_data, server_files_data, session_id, claude_client, api_error) ==
    IF ~claude_client
    THEN [resp |-> Err(503, "Claude API not available"), steps |-> <<>>, calls |-> 0]
    ELSE LET built == build_claude_prompt(form_data, uploaded_files_data, server_files_data) IN
         IF ~built.error_none /\ built.error # ""
         THEN [resp |-> Err(400, built.error), steps |-> <<"build_claude_prompt">>, calls |-> 0]
         ELSE IF api_error # ""
         THEN [resp |-> Err(500, "Error generating content: " \o api_error),
               steps |-> <<"build_claude_prompt", "messages.create">>, calls |-> 1]
         ELSE [resp |-> Ok([success |-> TRUE, content |-> "<generated>",
                            session_id |-> session_id, page_type |-> "claude-call",
                            files_processed |-> Keys(uploaded_files_data),
                            server_files_loaded |-> Keys(server_files_data),
                            form_fields_received |-> FieldsReceived(form_data, {"claude_prompt"}),
                            content_preferences |-> get_content_preferences(form_data)]),
               steps |-> <<"build_claude_prompt", "messages.create">>, calls |-> 1]

(***************************************************************************)
(* binary_file_handler.py: serving a file of /app/server_files.  The file  *)
(* system is a set of [path, isfile] records.  abort(n) raises an          *)
(* HTTPException, which is an Exception: raised inside the try block it    *)
(* is caught by the handler of lines 73-75.                                *)
(***************************************************************************)
RECURSIVE split(_)
split(path) ==
    LET seps == {i \in 1..Len(path) : CharAt(path, i) = "/"}
    IN  IF seps = {} THEN <<path>>
        ELSE LET first == CHOOSE i \in seps : \A j \in seps : i <= j
             IN  <<SubSeq(path, 1, first - 1)>> \o split(SubSeq(path, first + 1, Len(path)))

RECURSIVE NormComps(_, _, _)
NormComps(comps, new_comps, initial_slashes) ==
    IF comps = <<>> THEN new_comps
    ELSE LET comp == comps[1]
             n == Len(new_comps)
         IN  IF comp \in {"", "."} THEN NormComps(Tail(comps), new_comps, initial_slashes)
             ELSE IF comp # ".." \/ (~initial_slashes /\ n = 0) \/ (n > 0 /\ new_comps[n] = "..")
             THEN NormComps(Tail(comps), Append(new_comps, comp), initial_slashes)
             ELSE IF n > 0 THEN NormComps(Tail(comps), SubSeq(new_comps, 1, n - 1), initial_slashes)
             ELSE NormComps(Tail(comps), new_comps, initial_slashes)

\* posixpath.normpath
normpath(path) ==
    LET initial_slashes == startswith(path, "/")
        joined == join("/", NormComps(split(path), <<>>, initial_slashes))
        out == IF initial_slashes THEN "/" \o joined ELSE joined
    IN  IF path = "" \/ out = "" THEN "." ELSE out

\* werkzeug.utils.safe_join: [none |-> TRUE] stands for None
RECURSIVE safe_join(_, _)
safe_join(directory, pathnames) ==
    IF pathnames = <<>> THEN [none |-> FALSE, path |-> directory]
    ELSE LET filename == IF pathnames[1] # "" THEN normpath(pathnames[1]) ELSE ""
         IN  IF startswith(filename, "/") \/ filename = ".." \/ startswith(filename, "../")
             THEN [none |-> TRUE, path |-> ""]
             ELSE safe_join(IF endswith(directory, "/") THEN directory \o filename
                            ELSE directory \o "/" \o filename, Tail(pathnames))

path_exists(fs, path) == \E f \in fs : f.path = normpath(path)
path_isfile(fs, path) == \E f \in fs : f.path = normpath(path) /\ f.isfile

mime_types ==
    <<KV(".docx", "application/vnd.openxmlformats-officedocument.wordprocessingml.document"),
      KV(".doc", "application/msword"), KV(".pdf", "application/pdf"),
      KV(".xlsx", "application/vnd.openxmlformats-officedocument.spreadsheetml.sheet"),
      KV(".xls", "application/vnd.ms-excel"),
      KV(".pptx", "application/vnd.openxmlformats-officedocument.presentationml.presentation"),
      KV(".ppt", "application/vnd.ms-powerpoint"), KV(".png", "image/png"),
      KV(".jpg", "image/jpeg"), KV(".jpeg", "image/jpeg"), KV(".gif", "image/gif"),
      KV(".txt", "text/plain"), KV(".csv", "text/csv")>>

Sent(file_path, mime_type) == [status |-> 200, sent |-> file_path, mimetype |-> mime_type, raised |-> FALSE]
Aborted(code) == [status |-> code, sent |-> "", mimetype |-> "", raised |-> TRUE]

\* the body of the try block, lines 24-71
serve_binary_file_try(fs, page_name, filename) ==
    LET base_path == "/app/server_files"
        file_path == safe_join(base_path, <<page_name, filename>>)
        root == splitext_root(filename)
        file_ext == lower(SubSeq(filename, Len(root) + 1, Len(filename)))
    IN  IF file_path.none \/ file_path.path = "" \/ ~startswith(file_path.path, base_path)
        THEN Aborted(403)
        ELSE IF ~path_exists(fs, file_path.path) THEN Aborted(404)
        ELSE IF ~path_isfile(fs, file_path.path) THEN Aborted(404)
        ELSE Sent(file_path.path, Get(mime_types, file_ext, "application/octet-stream"))

\* except Exception: abort(500)
serve_binary_file(fs, page_name, filename) ==
    LET out == serve_binary_file_try(fs, page_name, filename)
    IN  IF out.raised THEN Aborted(500) ELSE out

(***************************************************************************)
(* Inputs                                                                  *)
(***************************************************************************)
MaxServerFiles == 2
MaxUploads == 1


XmlSample ==
    <<KV("document", Str("<w:document/>")), KV("error", Str("bad zip")),
      KV("styles", Str("")), KV("file_list", [kind |-> "list", items |-> <<"a.xml", "b.xml">>])>>

\* mapping values the builder and the handlers are given, each under its own key
DataPool ==
    <<KV("cv", Dict([file_type |-> "docx", text_content |-> " Dear A \n",
                     xml_structure |-> XmlSample])),
      KV("form", Dict([file_type |-> "pdf", text_content |-> "P1",
                       form_data |-> <<KV("Title", "T"), KV("Pages", "2")>>])),
      KV("notes", Dict([file_type |-> "txt", text_content |-> "note"])),
      KV("old_ref", Legacy(" old text ")),
      KV("mixed", Dict([file_type |-> "docx", xml_structure |-> <<>>,
                        form_data |-> <<KV("Title", "X")>>])),
      KV("scan", Dict([file_type |-> "pdf", text_content |-> "",
                       xml_structure |-> XmlSample, form_data |-> <<>>])),
      KV("other", Dict([file_type |-> "rtf", text_content |-> "r"])),
      KV("empty", Dict(<<>>))>>

\* the mappings made of at most n consecutive entries of the pool
Picks(n) ==
    {SubSeq(DataPool, w[1], w[1] + w[2] - 1) :
        w \in {x \in (1..Len(DataPool)) \X (0..n) : x[1] + x[2] - 1 <= Len(DataPool)}}

ServerInputs == Picks(MaxServerFiles)
UploadInputs == Picks(MaxUploads)

PromptForms ==
    {<<>>,
     <<KV("claude_prompt", "")>>,
     <<KV("claude_prompt", " \n"), KV("first_name", "Ann")>>,
     <<KV("claude_prompt", "Go")>>,
     <<KV("page_type", "claude-call"), KV("first_name", " Ann "), KV("claude_prompt", "  Write it \n"),
       KV("middle_name", "  "), KV("page_title", "Letters")>>,
     <<KV("claude_prompt", "Go\n"), KV("include_docx_text", "false"), KV("include_docx_xml", "TRUE"),
       KV("include_pdf_forms", "true"), KV("dept_name", "bio lab")>>,
     <<KV("claude_prompt", "Go"), KV("include_pdf_text", "no"), KV("include_txt_content", ""),
       KV("include_docx_xml", "True")>>}

FileNames ==
    {"", "a.docx", "a.pdf", "a.txt", "A.TXT", "b.Pdf", "C.DOCX", "a.doc", "a.exe", "txt",
     "a.txt.exe", "a.pdf.bak", ".pdf"}

FileSizes == {0, 1, MaxUploadBytes - 1, MaxUploadBytes, MaxUploadBytes + 1}

FileInputs ==
    {[present |-> FALSE, filename |-> "", size |-> 0, pos |-> 0]}
    \cup [present : {TRUE}, filename : FileNames, size : FileSizes, pos : {0}]
    \cup [present : {TRUE}, filename : {"a.docx", "a.txt", "a.exe"},
          size : {1, MaxUploadBytes + 1}, pos : {1}]

PrefKeys ==
    <<"include_docx_text", "include_docx_xml", "include_pdf_text", "include_pdf_forms",
      "include_txt_content">>

PrefValues == {"true", "tRuE", "false", "", " true"}

\* a form holding the flags of PrefKeys that vals gives a value, in key order
RECURSIVE PrefForm(_, _)
PrefForm(vals, i) ==
    IF i > Len(PrefKeys) THEN <<>>
    ELSE (IF vals[i].present THEN <<KV(PrefKeys[i], vals[i].v)>> ELSE <<>>)
         \o PrefForm(vals, i + 1)

FlagChoices == {[present |-> FALSE, v |-> ""]} \cup [present : {TRUE}, v : PrefValues]

(***************************************************************************)
(* Function harness: Init draws a function and its arguments, the action   *)
(* applies the function.                                                   *)
(***************************************************************************)
DocOf(text) ==
    [text_fails |-> FALSE, cause |-> "", text |-> text, xml |-> XmlSample,
     forms |-> <<KV("document_info", "1 page")>>]

DocBroken(cause) == [text_fails |-> TRUE, cause |-> cause, text |-> "", xml |-> <<>>, forms |-> <<>>]

Entry(name, isfile, doc) == [name |-> name, isfile |-> isfile, doc |-> doc]

MaxDirs == 2

DirNames == {"sample-page", "shared", "nowhere"}

\* trees whose files collide on their keys, inside a directory and across directories
LoaderTrees ==
    {<<KV("sample-page", <<Entry("guide_lines.txt", TRUE, DocOf("g1")),
                           Entry("guide-lines.docx", TRUE, DocOf("g2")),
                           Entry("archive", FALSE, DocOf("")),
                           Entry("notes.pdf", TRUE, DocOf("n1")),
                           Entry("broken.pdf", TRUE, DocBroken("EOF marker not found"))>>),
       KV("shared", <<Entry("notes.pdf", TRUE, DocOf("n2")),
                      Entry("Notes.v2.TXT", TRUE, DocOf("n3")),
                      Entry("notes.txt", TRUE, DocOf("n4")),
                      Entry("data.csv", TRUE, DocOf("a,b"))>>)>>,
     <<KV("shared", <<Entry("guide_lines.txt", TRUE, DocOf("g3"))>>),
       KV("sample-page", <<>>)>>,
     <<>>}

RECURSIVE DirLists(_)
DirLists(n) ==
    IF n = 0 THEN {<<>>}
    ELSE DirLists(n - 1) \cup {Append(ds, d) : ds \in DirLists(n - 1), d \in DirNames}

\* the directories argument: not given (None), or a list of directory names
DirectoriesInputs ==
    {[given |-> FALSE, dirs |-> <<>>]} \cup [given : {TRUE}, dirs : DirLists(MaxDirs)]

MaxPages == 2

PagePool ==
    {[fails |-> TRUE, text |-> ""], [fails |-> FALSE, text |-> ""],
     [fails |-> FALSE, text |-> " \n"], [fails |-> FALSE, text |-> " Hello \n"],
     [fails |-> FALSE, text |-> "B"]}

RECURSIVE PageLists(_)
PageLists(n) ==
    IF n = 0 THEN {<<>>}
    ELSE PageLists(n - 1) \cup {Append(ps, p) : ps \in PageLists(n - 1), p \in PagePool}

PdfInputs ==
    {[readable |-> FALSE, cause |-> "EOF marker not found", pages |-> <<>>]}
    \cup [readable : {TRUE}, cause : {""}, pages : PageLists(MaxPages)]

MaxBlocks == 3

BlockPool ==
    {Paragraph("A"), Paragraph("  "), Paragraph(" B \n"),
     Table(<<<<"x", " y ">>, <<"", " ">>, <<"", "w">>>>), Table(<<<<"z">>>>)}

RECURSIVE Bodies(_)
Bodies(n) ==
    IF n = 0 THEN {<<>>}
    ELSE Bodies(n - 1) \cup {Append(bs, b) : bs \in Bodies(n - 1), b \in BlockPool}

DocxInputs ==
    {[readable |-> FALSE, cause |-> "File is not a zip file", body |-> <<>>]}
    \cup [readable : {TRUE}, cause : {""}, body : Bodies(MaxBlocks)]

ExtractNames == {"a.docx", "B.PDF", "c.txt", "d.exe", "e.doc", "noext", "f.txt.bak"}

ExtractDocs == {DocOf("text"), DocBroken("bad content")}

UploadedFileInputs ==
    {[present |-> FALSE, filename |-> "", size |-> 0, pos |-> 0]}
    \cup [present : {TRUE}, filename : ExtractNames, size : {0, 1}, pos : {0}]

BinaryFs ==
    {[path |-> "/app/server_files", isfile |-> FALSE],
     [path |-> "/app/server_files/sample-page", isfile |-> FALSE],
     [path |-> "/app/server_files/sample-page/Sample_Letter.docx", isfile |-> TRUE],
     [path |-> "/app/server_files/sample-page/logo.PNG", isfile |-> TRUE],
     [path |-> "/app/server_files/sample-page/archive", isfile |-> FALSE],
     [path |-> "/app/secret.env", isfile |-> TRUE],
     [path |-> "/etc/passwd", isfile |-> TRUE]}

BinaryPages == {"sample-page", "other-page", ".."}

BinaryNames ==
    {"Sample_Letter.docx", "logo.PNG", "archive", "missing.pdf", "", "./Sample_Letter.docx",
     "archive/../Sample_Letter.docx", "../secret.env", "../../etc/passwd", "/etc/passwd", "secret.env"}

BinaryInputs == [fn : {"serve_binary_file"}, page_name : BinaryPages, filename : BinaryNames]

\* s repeated n times
RECURSIVE Repeat(_, _)
Repeat(s, n) ==
    IF n = 0 THEN ""
    ELSE IF n % 2 = 1 THEN s \o Repeat(s, n - 1)
    ELSE LET half == Repeat(s, n \div 2) IN half \o half

\* XML parts whose string form is one character over, exactly at and under the limit
LongXml ==
    <<KV("document", Str(Repeat("x", XmlMax + 1))),
      KV("styles", Str(Repeat("s", XmlMax))),
      KV("error", Str(Repeat("e", XmlMax + 1))),
      KV("numbering", Str("")),
      KV("file_list", [kind |-> "list", items |-> <<Repeat("f", XmlMax - 3)>>]),
      KV("rels", [kind |-> "list", items |-> <<Repeat("r", XmlMax - 4)>>]),
      KV("settings", Str("<w:settings/>"))>>

LongXmlInputs ==
    {<<>>, <<KV("long", Dict([file_type |-> "docx", text_content |-> "t", xml_structure |-> LongXml]))>>}

NoRet == [none |-> TRUE]

FnInputs ==
    [fn : {"validate_file"}, file : FileInputs]
    \cup {[fn |-> "get_content_preferences", form_data |-> PrefForm(<<a, b, c, d, e>>, 1)] :
              a \in FlagChoices, b \in FlagChoices, c \in FlagChoices,
              d \in FlagChoices, e \in FlagChoices}
    \cup [fn : {"build_claude_prompt"}, form_data : PromptForms,
          uploaded_files_data : UploadInputs, server_files_data : ServerInputs]
    \cup [fn : {"handle_no_call_page"}, page_name : {"sample-page"}, form_data : PromptForms,
          uploaded_files_data : UploadInputs, server_files_data : ServerInputs]
    \cup [fn : {"handle_claude_call_page"}, page_name : {"sample-page"}, form_data : PromptForms,
          uploaded_files_data : UploadInputs, server_files_data : ServerInputs,
          claude_client : BOOLEAN, api_error : {"", "Connection error."}]
    \cup [fn : {"load_server_files"}, fs : LoaderTrees, page_name : {"sample-page"},
          directories : DirectoriesInputs]
    \cup [fn : {"extract_text_from_pdf"}, pdf : PdfInputs]
    \cup [fn : {"extract_text_from_docx"}, docx : DocxInputs]
    \cup [fn : {"process_uploaded_file"}, file : UploadedFileInputs, doc : ExtractDocs]
    \cup [fn : {"process_server_file"},
          file_path : {"/app/server_files/sample-page/" \o n : n \in ExtractNames},
          doc : ExtractDocs]
    \cup BinaryInputs
    \cup [fn : {"build_claude_prompt"}, form_data : PromptForms,
          uploaded_files_data : LongXmlInputs, server_files_data : LongXmlInputs]

ApiIdle ==
    /\ req = [none |-> TRUE]
    /\ pc = "idle"
    /\ idx = 0
    /\ uploaded = <<>>
    /\ server = <<>>
    /\ trace = <<>>
    /\ api_calls = 0
    /\ resp = [none |-> TRUE]
    /\ env = [none |-> TRUE]

InitFn == call \in FnInputs /\ ret = NoRet /\ ApiIdle

Apply_validate_file ==
    /\ call.fn = "validate_file" /\ ret = NoRet
    /\ ret' = validate_file(call.file)
    /\ UNCHANGED <<call, req, pc, idx, uploaded, server, trace, api_calls, resp, env>>

Apply_get_content_preferences ==
    /\ call.fn = "get_content_preferences" /\ ret = NoRet
    /\ ret' = get_content_preferences(call.form_data)
    /\ UNCHANGED <<call, req, pc, idx, uploaded, server, trace, api_calls, resp, env>>

Apply_build_claude_prompt ==
    /\ call.fn = "build_claude_prompt" /\ ret = NoRet
    /\ ret' = build_claude_prompt(call.form_data, call.uploaded_files_data, call.server_files_data)
    /\ UNCHANGED <<call, req, pc, idx, uploaded, server, trace, api_calls, resp, env>>

Apply_handle_no_call_page ==
    /\ call.fn = "handle_no_call_page" /\ ret = NoRet
    /\ ret' = handle_no_call_page(call.page_name, call.form_data, call.uploaded_files_data,
                                  call.server_files_data, "s1")
    /\ UNCHANGED <<call, req, pc, idx, uploaded, server, trace, api_calls, resp, env>>

Apply_handle_claude_call_page ==
    /\ call.fn = "handle_claude_call_page" /\ ret = NoRet
    /\ ret' = handle_claude_call_page(call.page_name, call.form_data, call.uploaded_files_data,
                                      call.server_files_data, "s1", call.claude_client,
                                      call.api_error)
    /\ UNCHANGED <<call, req, pc, idx, uploaded, server, trace, api_calls, resp, env>>

Apply_load_server_files ==
    /\ call.fn = "load_server_files" /\ ret = NoRet
    /\ ret' = [server_files |-> load_server_files(call.fs, call.page_name, call.directories)]
    /\ UNCHANGED <<call, req, pc, idx, uploaded, server, trace, api_calls, resp, env>>

Apply_extract_text_from_pdf ==
    /\ call.fn = "extract_text_from_pdf" /\ ret = NoRet
    /\ ret' = extract_text_from_pdf(call.pdf)
    /\ UNCHANGED <<call, req, pc, idx, uploaded, server, trace, api_calls, resp, env>>

Apply_extract_text_from_docx ==
    /\ call.fn = "extract_text_from_docx" /\ ret = NoRet
    /\ ret' = extract_text_from_docx(call.docx)
    /\ UNCHANGED <<call, req, pc, idx, uploaded, server, trace, api_calls, resp, env>>

Apply_process_uploaded_file ==
    /\ call.fn = "process_uploaded_file" /\ ret = NoRet
    /\ ret' = [out |-> process_uploaded_file(call.file, call.doc),
               steps |-> process_uploaded_file_steps(call.file, call.doc),
               log |-> ""]
    /\ UNCHANGED <<call, req, pc, idx, uploaded, server, trace, api_calls, resp, env>>

Apply_process_server_file ==
    /\ call.fn = "process_server_file" /\ ret = NoRet
    /\ ret' = [out |-> process_server_file(call.file_path, call.doc),
               steps |-> process_server_file_steps(call.file_path, call.doc),
               log |-> process_server_file_log(call.file_path, call.doc)]
    /\ UNCHANGED <<call, req, pc, idx, uploaded, server, trace, api_calls, resp, env>>

Apply_serve_binary_file ==
    /\ call.fn = "serve_binary_file" /\ ret = NoRet
    /\ ret' = serve_binary_file(BinaryFs, call.page_name, call.filename)
    /\ UNCHANGED <<call, req, pc, idx, uploaded, server, trace, api_calls, resp, env>>

NextFn ==
    \/ Apply_serve_binary_file
    \/ Apply_process_uploaded_file
    \/ Apply_process_server_file
    \/ Apply_extract_text_from_docx
    \/ Apply_extract_text_from_pdf
    \/ Apply_load_server_files
    \/ Apply_validate_file
    \/ Apply_get_content_preferences
    \/ Apply_build_claude_prompt
    \/ Apply_handle_no_call_page
    \/ Apply_handle_claude_call_page

SpecFn == InitFn /\ [][NextFn]_vars

(***************************************************************************)
(* POST /api/<page_name>: generic_api of app.py, one action per loop       *)
(* iteration and per call.  trace lists the work done for the request in   *)
(* the order it was done.                                                  *)
(***************************************************************************)
MaxFields == 3

Upload(field, filename, size, doc) ==
    [field |-> field, doc |-> doc,
     file |-> [present |-> TRUE, filename |-> filename, size |-> size, pos |-> 0]]

UploadPool ==
    <<Upload("cv_file", "cv.docx", 1, DocOf("Dear A")),
      Upload("old_letter_file", "Old.PDF", MaxUploadBytes, DocOf("P1")),
      Upload("unused", "", 0, DocOf("")),
      Upload("notes_file", "notes.txt", 1, DocOf("note")),
      Upload("scan", "scan.pdf", 1, DocBroken("No text could be extracted from the PDF")),
      Upload("empty_file", "e.docx", 0, DocOf("")),
      Upload("photo", "me.exe", 1, DocOf("")),
      Upload("big_file", "big.pdf", MaxUploadBytes + 1, DocOf("P2"))>>

\* request.files: at most n consecutive uploads of the pool
FileInputsOf(n) ==
    {SubSeq(UploadPool, w[1], w[1] + w[2] - 1) :
        w \in {x \in (1..Len(UploadPool)) \X (0..n) : x[1] + x[2] - 1 <= Len(UploadPool)}}

RequestForms ==
    {<<>>,
     <<KV("claude_prompt", "Go"), KV("first_name", "Ann")>>,
     <<KV("page_type", "claude-call"), KV("claude_prompt", " ")>>,
     <<KV("page_type", "claude-call"), KV("claude_prompt", ""), KV("first_name", "Ann")>>,
     <<KV("page_type", "no-call"), KV("page_title", "Letters"), KV("first_name", "Ann")>>,
     <<KV("page_type", "no-call"), KV("claude_prompt", "Go")>>,
     <<KV("page_type", "preview"), KV("claude_prompt", "Go")>>}

Trees ==
    {<<>>,
     <<KV("sample-page", <<>>)>>,
     <<KV("sample-page", <<Entry("Sample_Letter.docx", TRUE, DocOf("Dear B"))>>)>>,
     <<KV("other-page", <<Entry("x.txt", TRUE, DocOf("x"))>>),
       KV("sample-page", <<Entry("guide-lines.txt", TRUE, DocOf("rules")),
                           Entry("archive", FALSE, DocOf("")),
                           Entry("broken.pdf", TRUE, DocBroken("EOF marker not found")),
                           Entry("data.csv", TRUE, DocOf("a,b"))>>)>>}

Requests ==
    [page_name : {"sample-page"}, files : FileInputsOf(MaxFields), form : RequestForms,
     session_id : {"s1"}]

NoResp == [none |-> TRUE]
NoCall == [fn |-> "none"]

Init ==
    /\ env \in [claude_client : BOOLEAN, fs : Trees]
    /\ req = [none |-> TRUE]
    /\ pc = "idle"
    /\ idx = 0
    /\ uploaded = <<>>
    /\ server = <<>>
    /\ trace = <<>>
    /\ api_calls = 0
    /\ resp = NoResp
    /\ call = NoCall
    /\ ret = NoRet

\* a request arrives
Receive ==
    /\ pc = "idle"
    /\ \E r \in Requests : req' = r
    /\ pc' = "files"
    /\ idx' = 1
    /\ uploaded' = <<>>
    /\ server' = <<>>
    /\ trace' = <<>>
    /\ api_calls' = 0
    /\ resp' = NoResp
    /\ UNCHANGED <<call, ret, env>>

Step(what, field) == [step |-> what, field |-> field]

\* the loop going on to the next upload after one that fails validation
FileLoop_skip_invalid ==
    /\ pc = "files" /\ idx <= Len(req.files)
    /\ LET up == req.files[idx]
           valid == app_validate_file(up.file)
           file_data == process_uploaded_file([up.file EXCEPT !.pos = valid.pos], up.doc)
           clean_field_name == replace(replace(up.field, "_file", ""), "_", " ")
       IN  IF ~up.file.present \/ up.file.filename = ""
           THEN /\ idx' = idx + 1
                /\ UNCHANGED <<pc, uploaded, trace, resp>>
           ELSE IF ~valid.ok
           THEN /\ trace' = Append(trace, Step("validate_file", up.field))
                /\ idx' = idx + 1
                /\ UNCHANGED <<pc, uploaded, resp>>
           ELSE IF file_data.raised
           THEN /\ resp' = Err(400, "Error processing " \o up.field \o ": " \o file_data.error)
                /\ trace' = trace \o <<Step("validate_file", up.field),
                                       Step("process_uploaded_file", up.field)>>
                /\ pc' = "done"
                /\ UNCHANGED <<idx, uploaded>>
           ELSE /\ uploaded' = IF file_data.none THEN uploaded
                               ELSE Put(uploaded, clean_field_name, Dict(file_data.data))
                /\ trace' = trace \o <<Step("validate_file", up.field),
                                       Step("process_uploaded_file", up.field)>>
                /\ idx' = idx + 1
                /\ UNCHANGED <<pc, resp>>
    /\ UNCHANGED <<call, ret, req, server, api_calls, env>>

\* one iteration of the loop over request.files: validate, then extract
FileLoop ==
    /\ pc = "files" /\ idx <= Len(req.files)
    /\ LET up == req.files[idx]
           valid == app_validate_file(up.file)
           file_data == process_uploaded_file([up.file EXCEPT !.pos = valid.pos], up.doc)
           clean_field_name == replace(replace(up.field, "_file", ""), "_", " ")
       IN  IF ~up.file.present \/ up.file.filename = ""
           THEN /\ idx' = idx + 1
                /\ UNCHANGED <<pc, uploaded, trace, resp>>
           ELSE IF ~valid.ok
           THEN /\ resp' = Err(400, up.field \o " error: " \o valid.msg)
                /\ trace' = Append(trace, Step("validate_file", up.field))
                /\ pc' = "done"
                /\ UNCHANGED <<idx, uploaded>>
           ELSE IF file_data.raised
           THEN /\ resp' = Err(400, "Error processing " \o up.field \o ": " \o file_data.error)
                /\ trace' = trace \o <<Step("validate_file", up.field),
                                       Step("process_uploaded_file", up.field)>>
                /\ pc' = "done"
                /\ UNCHANGED <<idx, uploaded>>
           ELSE /\ uploaded' = IF file_data.none THEN uploaded
                               ELSE Put(uploaded, clean_field_name, Dict(file_data.data))
                /\ trace' = trace \o <<Step("validate_file", up.field),
                                       Step("process_uploaded_file", up.field)>>
                /\ idx' = idx + 1
                /\ UNCHANGED <<pc, resp>>
    /\ UNCHANGED <<call, ret, req, server, api_calls, env>>

\* server_files_data = load_server_files(page_name)
LoadServerFiles ==
    /\ pc = "files" /\ idx > Len(req.files)
    /\ server' = app_load_server_files(env.fs, req.page_name)
    /\ trace' = Append(trace, Step("load_server_files", ""))
    /\ pc' = "dispatch"
    /\ UNCHANGED <<call, ret, req, idx, uploaded, api_calls, resp, env>>

\* an absent page_type taken for 'no-call'
page_type_default_no_call == Get(req.form, "page_type", "no-call")

page_type == Get(req.form, "page_type", "claude-call")

NoCallPage ==
    /\ pc = "dispatch" /\ page_type = "no-call"
    /\ resp' = app_handle_no_call_page(req.page_name, req.form, uploaded, server, req.session_id)
    /\ trace' = Append(trace, Step("handle_no_call_page", ""))
    /\ pc' = "done"
    /\ UNCHANGED <<call, ret, req, idx, uploaded, server, api_calls, env>>

ApiErrors == {"", "Connection error."}

ClaudeCallPage ==
    /\ pc = "dispatch" /\ page_type = "claude-call"
    /\ \E api_error \in ApiErrors :
           LET out == app_handle_claude_call_page(req.page_name, req.form, uploaded, server,
                                                  req.session_id, env.claude_client, api_error)
           IN  /\ resp' = out.resp
               /\ api_calls' = api_calls + out.calls
               /\ trace' = trace \o <<Step("handle_claude_call_page", "")>>
                                 \o [i \in 1..Len(out.steps) |-> Step(out.steps[i], "")]
    /\ pc' = "done"
    /\ UNCHANGED <<call, ret, req, idx, uploaded, server, env>>

UnknownPageType ==
    /\ pc = "dispatch" /\ page_type \notin {"no-call", "claude-call"}
    /\ resp' = Err(400, "Unknown page type: " \o page_type)
    /\ pc' = "done"
    /\ UNCHANGED <<call, ret, req, idx, uploaded, server, trace, api_calls, env>>

\* the response is sent; the next request can arrive
Respond ==
    /\ pc = "done"
    /\ pc' = "idle"
    /\ UNCHANGED <<call, ret, req, idx, uploaded, server, trace, api_calls, resp, env>>

Next ==
    \/ Receive
    \/ FileLoop
    \/ LoadServerFiles
    \/ NoCallPage
    \/ ClaudeCallPage
    \/ UnknownPageType
    \/ Respond

Spec == Init /\ [][Next]_vars

(***************************************************************************)
(* Concurrent requests.  Flask serves each request in its own context:     *)
(* uploaded_files_data, server_files_data, form_data and the response are  *)
(* locals of generic_api, while claude_client and the directory tree are   *)
(* module state that no handler assigns.  Under SpecConc the request       *)
(* variables are functions over the slots of requests in flight, and the   *)
(* steps of different slots interleave freely.                             *)
(***************************************************************************)
ConcSlots == {"a", "b"}

ConcRequest(files, form) == [page_name |-> "sample-page", files |-> files, form |-> form, session_id |-> "s1"]

ConcRequests ==
    {ConcRequest(<<UploadPool[1]>>, <<KV("claude_prompt", "Go")>>),
     ConcRequest(<<>>, <<KV("claude_prompt", "Go"), KV("first_name", "Ann")>>),
     ConcRequest(<<UploadPool[7]>>, <<KV("page_type", "no-call")>>),
     ConcRequest(<<UploadPool[3]>>, <<KV("page_type", "no-call"), KV("first_name", "Ann")>>),
     ConcRequest(<<UploadPool[1], UploadPool[5]>>, <<KV("page_type", "no-call")>>),
     ConcRequest(<<UploadPool[2]>>, <<KV("page_type", "preview")>>)}

ConcEnvs == [claude_client : BOOLEAN, fs : {tree \in Trees : Len(tree) <= 1}]

\* the outcome of one pass of the loop over request.files
UploadStep(up, files_data) ==
    LET valid == app_validate_file(up.file)
        file_data == process_uploaded_file([up.file EXCEPT !.pos = valid.pos], up.doc)
        clean_field_name == replace(replace(up.field, "_file", ""), "_", " ")
    IN  IF ~up.file.present \/ up.file.filename = ""
        THEN [returned |-> FALSE, resp |-> NoResp, uploaded |-> files_data, steps |-> <<>>]
        ELSE IF ~valid.ok
        THEN [returned |-> TRUE, resp |-> Err(400, up.field \o " error: " \o valid.msg),
              uploaded |-> files_data, steps |-> <<Step("validate_file", up.field)>>]
        ELSE IF file_data.raised
        THEN [returned |-> TRUE, resp |-> Err(400, "Error processing " \o up.field \o ": " \o file_data.error),
              uploaded |-> files_data,
              steps |-> <<Step("validate_file", up.field), Step("process_uploaded_file", up.field)>>]
        ELSE [returned |-> FALSE, resp |-> NoResp,
              uploaded |-> IF file_data.none THEN files_data
                           ELSE Put(files_data, clean_field_name, Dict(file_data.data)),
              steps |-> <<Step("validate_file", up.field), Step("process_uploaded_file", up.field)>>]

RECURSIVE UploadLoop(_, _, _)
UploadLoop(files, i, files_data) ==
    IF i > Len(files) THEN [returned |-> FALSE, resp |-> NoResp, uploaded |-> files_data]
    ELSE LET pass == UploadStep(files[i], files_data)
         IN  IF pass.returned THEN [returned |-> TRUE, resp |-> pass.resp, uploaded |-> pass.uploaded]
             ELSE UploadLoop(files, i + 1, pass.uploaded)

\* generic_api run from its first line to its return, nothing else running
generic_api(request, e, api_error) ==
    LET files == UploadLoop(request.files, 1, <<>>)
        server_files_data == app_load_server_files(e.fs, request.page_name)
        type == Get(request.form, "page_type", "claude-call")
    IN  IF files.returned THEN files.resp
        ELSE IF type = "no-call"
        THEN app_handle_no_call_page(request.page_name, request.form, files.uploaded,
                                     server_files_data, request.session_id)
        ELSE IF type = "claude-call"
        THEN app_handle_claude_call_page(request.page_name, request.form, files.uploaded,
                                         server_files_data, request.session_id,
                                         e.claude_client, api_error).resp
        ELSE Err(400, "Unknown page type: " \o type)

InitConc ==
    /\ env \in ConcEnvs
    /\ req = [s \in ConcSlots |-> [none |-> TRUE]]
    /\ pc = [s \in ConcSlots |-> "idle"]
    /\ idx = [s \in ConcSlots |-> 0]
    /\ uploaded = [s \in ConcSlots |-> <<>>]
    /\ server = [s \in ConcSlots |-> <<>>]
    /\ trace = [s \in ConcSlots |-> <<>>]
    /\ api_calls = [s \in ConcSlots |-> 0]
    /\ resp = [s \in ConcSlots |-> NoResp]
    /\ call = NoCall
    /\ ret = NoRet

ConcReceive(s) ==
    /\ pc[s] = "idle"
    /\ \E r \in ConcRequests : req' = [req EXCEPT ![s] = r]
    /\ pc' = [pc EXCEPT ![s] = "files"]
    /\ idx' = [idx EXCEPT ![s] = 1]
    /\ uploaded' = [uploaded EXCEPT ![s] = <<>>]
    /\ server' = [server EXCEPT ![s] = <<>>]
    /\ trace' = [trace EXCEPT ![s] = <<>>]
    /\ api_calls' = [api_calls EXCEPT ![s] = 0]
    /\ resp' = [resp EXCEPT ![s] = NoResp]
    /\ UNCHANGED <<call, ret, env>>

\* a module-level uploaded_files_data: a pass that starts with nothing of its own sees the other request's
ConcFilesData_module_level(s) ==
    IF uploaded[s] # <<>> THEN uploaded[s]
    ELSE LET other == CHOOSE o \in ConcSlots : o # s IN uploaded[other]

\* the local uploaded_files_data a pass of the loop in slot s starts from
ConcFilesData(s) == uploaded[s]

ConcFileLoop(s) ==
    /\ pc[s] = "files" /\ idx[s] <= Len(req[s].files)
    /\ LET pass == UploadStep(req[s].files[idx[s]], ConcFilesData(s))
       IN  /\ uploaded' = [uploaded EXCEPT ![s] = pass.uploaded]
           /\ trace' = [trace EXCEPT ![s] = @ \o pass.steps]
           /\ IF pass.returned
              THEN /\ resp' = [resp EXCEPT ![s] = pass.resp]
                   /\ pc' = [pc EXCEPT ![s] = "done"]
                   /\ UNCHANGED idx
              ELSE /\ idx' = [idx EXCEPT ![s] = @ + 1]
                   /\ UNCHANGED <<pc, resp>>
    /\ UNCHANGED <<call, ret, req, server, api_calls, env>>

ConcLoadServerFiles(s) ==
    /\ pc[s] = "files" /\ idx[s] > Len(req[s].files)
    /\ server' = [server EXCEPT ![s] = app_load_server_files(env.fs, req[s].page_name)]
    /\ trace' = [trace EXCEPT ![s] = Append(@, Step("load_server_files", ""))]
    /\ pc' = [pc EXCEPT ![s] = "dispatch"]
    /\ UNCHANGED <<call, ret, req, idx, uploaded, api_calls, resp, env>>

ConcPageType(s) == Get(req[s].form, "page_type", "claude-call")

ConcNoCallPage(s) ==
    /\ pc[s] = "dispatch" /\ ConcPageType(s) = "no-call"
    /\ resp' = [resp EXCEPT ![s] = app_handle_no_call_page(req[s].page_name, req[s].form, uploaded[s], server[s], req[s].session_id)]
    /\ trace' = [trace EXCEPT ![s] = Append(@, Step("handle_no_call_page", ""))]
    /\ pc' = [pc EXCEPT ![s] = "done"]
    /\ UNCHANGED <<call, ret, req, idx, uploaded, server, api_calls, env>>

ConcClaudeCallPage(s) ==
    /\ pc[s] = "dispatch" /\ ConcPageType(s) = "claude-call"
    /\ \E api_error \in ApiErrors :
           LET out == app_handle_claude_call_page(req[s].page_name, req[s].form, uploaded[s], server[s],
                                                  req[s].session_id, env.claude_client, api_error)
           IN  /\ resp' = [resp EXCEPT ![s] = out.resp]
               /\ api_calls' = [api_calls EXCEPT ![s] = @ + out.calls]
               /\ trace' = [trace EXCEPT ![s] = @ \o <<Step("handle_claude_call_page", "")>>
                                                  \o [i \in 1..Len(out.steps) |-> Step(out.steps[i], "")]]
    /\ pc' = [pc EXCEPT ![s] = "done"]
    /\ UNCHANGED <<call, ret, req, idx, uploaded, server, env>>

ConcUnknownPageType(s) ==
    /\ pc[s] = "dispatch" /\ ConcPageType(s) \notin {"no-call", "claude-call"}
    /\ resp' = [resp EXCEPT ![s] = Err(400, "Unknown page type: " \o ConcPageType(s))]
    /\ pc' = [pc EXCEPT ![s] = "done"]
    /\ UNCHANGED <<call, ret, req, idx, uploaded, server, trace, api_calls, env>>

\* the response of slot s is sent; the slot can take the next request
ConcRespond(s) ==
    /\ pc[s] = "done"
    /\ pc' = [pc EXCEPT ![s] = "idle"]
    /\ UNCHANGED <<call, ret, req, idx, uploaded, server, trace, api_calls, resp, env>>

NextConc ==
    \/ \E s \in ConcSlots : ConcReceive(s)
    \/ \E s \in ConcSlots : ConcFileLoop(s)
    \/ \E s \in ConcSlots : ConcLoadServerFiles(s)
    \/ \E s \in ConcSlots : ConcNoCallPage(s)
    \/ \E s \in ConcSlots : ConcClaudeCallPage(s)
    \/ \E s \in ConcSlots : ConcUnknownPageType(s)
    \/ \E s \in ConcSlots : ConcRespond(s)

SpecConc == InitConc /\ [][NextConc]_vars

(***************************************************************************)
(* Properties of the functions                                             *)
(***************************************************************************)
Returned(fn) == call.fn = fn /\ ret # NoRet

\* the extension test of the validator's contract, on the filename's last characters
AllowedName(filename) ==
    \E ext \in {".docx", ".pdf", ".txt"} :
        /\ Len(filename) >= Len(ext)
        /\ \A i \in 1..Len(ext) :
               ToLowerC(CharAt(filename, Len(filename) - Len(ext) + i)) = CharAt(ext, i)

\* C2: validate_file rejects a zero-byte file, a file over 10 MiB and a file
\* with a disallowed extension, each with a reason of its own that names a
\* condition the file violates: the three reasons are used for nothing else.
C2_SpecificReasons ==
    (Returned("validate_file") /\ call.file.present /\ call.file.filename # "") =>
        /\ (~AllowedName(call.file.filename) \/ call.file.size = 0
               \/ call.file.size > MaxUploadBytes) => ~ret.ok
        /\ ~AllowedName(call.file.filename) =>
               ret.msg = "Only .docx, .pdf, and .txt files are supported"
        /\ (AllowedName(call.file.filename) /\ call.file.size = 0) => ret.msg = "File is empty"
        /\ (AllowedName(call.file.filename) /\ call.file.size > MaxUploadBytes) =>
               ret.msg = "File size must be less than 10MB"
        /\ ret.msg = "File is empty" => call.file.size = 0
        /\ ret.msg = "File size must be less than 10MB" => call.file.size > MaxUploadBytes
        /\ ret.msg = "Only .docx, .pdf, and .txt files are supported" =>
               ~AllowedName(call.file.filename)

C2_Witness ==
    /\ Returned("validate_file") /\ call.file.filename = "b.Pdf" /\ call.file.size = 0
    /\ ~ret.ok /\ ret.msg = "File is empty"

\* "true" whatever the case of its letters
IsTrueIgnoringCase(v) ==
    /\ Len(v) = Len("true")
    /\ \A i \in 1..Len("true") : CharAt(v, i) \in {CharAt("true", i), CharAt("TRUE", i)}

FlagDefault(key) ==
    IF key \in {"include_docx_text", "include_pdf_text", "include_txt_content"}
    THEN "true" ELSE "false"

Submitted(form_data, key) ==
    IF \E i \in 1..Len(form_data) : form_data[i].k = key
    THEN form_data[CHOOSE i \in 1..Len(form_data) : form_data[i].k = key].v
    ELSE FlagDefault(key)

\* C3: each of the five booleans of get_content_preferences is true exactly
\* when the submitted value, or the default of an absent field ("true" for the
\* three text flags, "false" for docx_xml and pdf_forms), is "true" ignoring
\* case; every other value, the empty string included, gives false.
C3_PreferencesParsed ==
    Returned("get_content_preferences") =>
        /\ DOMAIN ret = {"docx_text", "docx_xml", "pdf_text", "pdf_forms", "txt_content"}
        /\ \A f \in DOMAIN ret :
               ret[f] = IsTrueIgnoringCase(Submitted(call.form_data, "include_" \o f))

C3_Witness ==
    /\ Returned("get_content_preferences")
    /\ Get(call.form_data, "include_docx_text", "absent") = "tRuE" /\ ret.docx_text
    /\ ~HasKey(call.form_data, "include_docx_xml") /\ ~ret.docx_xml
    /\ ~HasKey(call.form_data, "include_pdf_text") /\ ret.pdf_text
    /\ Get(call.form_data, "include_pdf_forms", "absent") = " true" /\ ~ret.pdf_forms
    /\ Get(call.form_data, "include_txt_content", "absent") = "" /\ ~ret.txt_content

AllSpace(s) == \A i \in 1..Len(s) : CharAt(s, i) \in {" ", "\n", "\t", "\r"}

\* the claude_prompt field is absent, empty or whitespace-only
NoInstruction(form_data) ==
    \A i \in 1..Len(form_data) : form_data[i].k = "claude_prompt" => AllSpace(form_data[i].v)

\* C4: build_claude_prompt returns exactly one of a prompt and an error: the
\* error "No Claude prompt provided" (and no prompt) exactly when claude_prompt
\* is absent, empty or whitespace-only, otherwise a non-empty prompt (and no
\* error).
C4_PromptOrError ==
    Returned("build_claude_prompt") =>
        /\ ret.prompt_none # ret.error_none
        /\ ret.prompt_none <=> NoInstruction(call.form_data)
        /\ ret.prompt_none => ret.error = "No Claude prompt provided"
        /\ ~ret.prompt_none => ret.prompt # ""

C4_Witness ==
    /\ Returned("build_claude_prompt")
    /\ Get(call.form_data, "claude_prompt", "absent") = " \n"
    /\ call.server_files_data # <<>> /\ call.uploaded_files_data # <<>>
    /\ ret.prompt_none /\ ~ret.error_none

SecRank(sec) == IF sec = "server" THEN 1 ELSE IF sec = "form" THEN 2 ELSE 3

\* the instruction build_claude_prompt appends: the field without the
\* whitespace around it
IsInstructionOf(instr, value) ==
    \E i \in 1..Len(value), j \in 1..Len(value) :
        /\ i <= j
        /\ instr = SubSeq(value, i, j)
        /\ AllSpace(SubSeq(value, 1, i - 1))
        /\ AllSpace(SubSeq(value, j + 1, Len(value)))
        /\ ~AllSpace(CharAt(value, i)) /\ ~AllSpace(CharAt(value, j))

\* the non-empty endings of s of at most n characters
Suffixes(s, n) ==
    {SubSeq(s, Len(s) - m + 1, Len(s)) : m \in {x \in 1..n : x <= Len(s)}}

\* the text a prompt has before its last n characters
Before(prompt, n) == SubSeq(prompt, 1, Len(prompt) - n)

\* C5: in every returned prompt the sections come in the order server
\* reference files, form data, uploaded file contents, user instruction: no
\* line of a later section precedes a line of an earlier one, and the
\* instruction follows all of them.
C5_SectionOrder ==
    (Returned("build_claude_prompt") /\ ~ret.prompt_none) =>
        /\ \A i \in 1..Len(ret.sections), j \in 1..Len(ret.sections) :
               i < j => SecRank(ret.sections[i].sec) <= SecRank(ret.sections[j].sec)
        /\ \A i \in 1..Len(ret.sections) :
               /\ ret.sections[i].sec = "server" => call.server_files_data # <<>>
               /\ ret.sections[i].sec = "upload" =>
                      HasKey(call.uploaded_files_data, ret.sections[i].owner)
               /\ ret.sections[i].sec = "form" /\ ret.sections[i].kind = "field" =>
                      HasKey(call.form_data, ret.sections[i].owner)
        /\ \E instr \in Suffixes(ret.prompt, Len(Get(call.form_data, "claude_prompt", ""))) :
               /\ IsInstructionOf(instr, Get(call.form_data, "claude_prompt", ""))
               /\ ret.sections # <<>> =>
                      Before(ret.prompt, Len(instr)) = join("\n", Texts(ret.sections)) \o "\n\n"
               /\ ret.sections = <<>> => ret.prompt = instr

C5_Witness ==
    /\ Returned("build_claude_prompt") /\ ~ret.prompt_none
    /\ \A sec \in {"server", "form", "upload"} :
           \E i \in 1..Len(ret.sections) : ret.sections[i].sec = sec

ContentKinds == {"docx_text", "docx_xml", "pdf_text", "pdf_forms", "txt_content"}

Without(lines, kind) == LET Keep(l) == l.kind # kind IN SelectSeq(lines, Keep)

PromptOf(lines, instr) ==
    IF lines # <<>> THEN join("\n", Texts(lines)) \o "\n\n" \o instr ELSE instr

WithFlag(form_data, flag, value) == Put(form_data, "include_" \o flag, value)

BuiltWith(flag, value) ==
    build_claude_prompt(WithFlag(call.form_data, flag, value), call.uploaded_files_data,
                        call.server_files_data)

\* C6: for each of the five flags, the prompt built with the flag false is the
\* prompt built with it true without the lines of the content that flag
\* governs, in server files and uploads; every other line is there, unchanged
\* and in the same order.
C6_FlagRemovesOnlyItsContent ==
    (Returned("build_claude_prompt") /\ ~ret.prompt_none) =>
        \A flag \in ContentKinds :
            LET on == BuiltWith(flag, "true")
                off == BuiltWith(flag, "false")
                mine == IF get_content_preferences(call.form_data)[flag] THEN on ELSE off
            IN  /\ ret.prompt = mine.prompt /\ ret.sections = mine.sections
                /\ off.sections = Without(on.sections, flag)
                /\ off.prompt = PromptOf(Without(on.sections, flag), strip(Get(call.form_data, "claude_prompt", "")))

C6_Witness ==
    /\ Returned("build_claude_prompt") /\ ~ret.prompt_none
    /\ get_content_preferences(call.form_data).docx_xml
    /\ \E i \in 1..Len(ret.sections) : ret.sections[i].kind = "docx_xml"
    /\ \E i \in 1..Len(ret.sections) : ret.sections[i].kind = "pdf_text"
    /\ BuiltWith("docx_xml", "false").prompt # ret.prompt

\* C7 as stated: the prompt ends with the claude_prompt value character for
\* character as submitted, a blank line before it.
C7_Original ==
    (Returned("build_claude_prompt") /\ ~ret.prompt_none) =>
        LET value == Get(call.form_data, "claude_prompt", "") IN
        /\ endswith(ret.prompt, value)
        /\ Len(ret.prompt) > Len(value) => endswith(Before(ret.prompt, Len(value)), "\n\n")

\* C7 amended: every returned prompt ends with the claude_prompt value without
\* its leading and trailing whitespace, the rest character for character as
\* submitted; when context sections precede it, a blank line separates it
\* from them.
C7_EndsWithStrippedInstruction ==
    (Returned("build_claude_prompt") /\ ~ret.prompt_none) =>
        \E instr \in Suffixes(ret.prompt, Len(Get(call.form_data, "claude_prompt", ""))) :
            /\ IsInstructionOf(instr, Get(call.form_data, "claude_prompt", ""))
            /\ (Len(ret.prompt) > Len(instr)) = (ret.sections # <<>>)
            /\ ret.sections # <<>> =>
                   /\ endswith(Before(ret.prompt, Len(instr)), "\n\n")
                   /\ ~endswith(Before(ret.prompt, Len(instr)), "\n\n\n")

C7_Witness ==
    /\ Returned("build_claude_prompt") /\ ~ret.prompt_none
    /\ Get(call.form_data, "claude_prompt", "") = "  Write it \n"
    /\ ret.sections # <<>>
    /\ endswith(ret.prompt, "\n\nWrite it")

FlagType(kind) ==
    IF kind \in {"docx_text", "docx_xml"} THEN "docx"
    ELSE IF kind \in {"pdf_text", "pdf_forms"} THEN "pdf" ELSE "txt"

FlagField(kind) ==
    IF kind = "docx_xml" THEN "xml_structure"
    ELSE IF kind = "pdf_forms" THEN "form_data" ELSE "text_content"

DataOf(sec, owner) ==
    IF sec = "server" THEN Get(call.server_files_data, owner, Legacy(""))
    ELSE Get(call.uploaded_files_data, owner, Legacy(""))

LinesOf(lines, sec, owner) ==
    LET Mine(l) == l.sec = sec /\ l.owner = owner /\ l.kind # "header" IN SelectSeq(lines, Mine)

Entries ==
    {<<"server", call.server_files_data[i].k>> : i \in 1..Len(call.server_files_data)}
    \cup {<<"upload", call.uploaded_files_data[i].k>> : i \in 1..Len(call.uploaded_files_data)}

\* C8: a file entry is rendered with only the content types that are enabled
\* by preference and match its detected file_type (text under the text flag
\* of its own type, XML only for docx with docx_xml, form data only for pdf
\* with pdf_forms), it is rendered with each such type whose content it has,
\* and a flag of one file type never changes the lines of an entry of another
\* type; for server files and uploaded files alike.
C8_RenderedByTypeAndFlag ==
    (Returned("build_claude_prompt") /\ ~ret.prompt_none) =>
        LET prefs == get_content_preferences(call.form_data) IN
        /\ \A i \in 1..Len(ret.sections) :
               ret.sections[i].kind \in ContentKinds =>
                   LET l == ret.sections[i]
                       data == DataOf(l.sec, l.owner)
                   IN  /\ data.isdict
                       /\ HasField(data.d, "file_type")
                       /\ data.d.file_type = FlagType(l.kind)
                       /\ prefs[l.kind]
                       /\ HasField(data.d, FlagField(l.kind))
        /\ \A e \in Entries : \A kind \in ContentKinds :
               LET data == DataOf(e[1], e[2]) IN
               (/\ data.isdict /\ HasField(data.d, "file_type")
                /\ data.d.file_type = FlagType(kind) /\ prefs[kind]
                /\ HasField(data.d, FlagField(kind))
                /\ IF FlagField(kind) = "text_content" THEN data.d.text_content # ""
                   ELSE data.d[FlagField(kind)] # <<>>) =>
                   \E i \in 1..Len(ret.sections) :
                       /\ ret.sections[i].kind = kind
                       /\ ret.sections[i].sec = e[1] /\ ret.sections[i].owner = e[2]
        /\ \A flag \in ContentKinds :
               LET on == BuiltWith(flag, "true").sections
                   off == BuiltWith(flag, "false").sections
               IN  \A e \in Entries :
                       LET data == DataOf(e[1], e[2]) IN
                       (data.isdict /\ GetField(data.d, "file_type", "unknown") # FlagType(flag))
                           => LinesOf(on, e[1], e[2]) = LinesOf(off, e[1], e[2])

C8_Witness ==
    /\ Returned("build_claude_prompt") /\ ~ret.prompt_none
    /\ get_content_preferences(call.form_data).docx_xml
    /\ get_content_preferences(call.form_data).pdf_forms
    /\ HasKey(call.server_files_data, "mixed") /\ HasKey(call.server_files_data, "scan")
    /\ LinesOf(ret.sections, "server", "mixed") = <<>>
    /\ LinesOf(ret.sections, "server", "scan") = <<>>

(***************************************************************************)
(* Properties of POST /api/<page_name>                                     *)
(***************************************************************************)
InRequest == pc # "idle" /\ req # [none |-> TRUE]

Did(what, field) == \E i \in 1..Len(trace) : trace[i] = Step(what, field)

DidAny(what) == \E i \in 1..Len(trace) : trace[i].step = what

\* C1: an upload is accepted exactly when it has a filename, its lowercased
\* filename ends in .docx, .pdf or .txt and its size is between 1 byte and
\* 10 MiB; this for every upload POST /api/<page_name> validates, where an
\* accepted upload is one that goes on to extraction.
C1_AcceptedIffValid ==
    InRequest =>
        \A i \in 1..Len(req.files) :
            Did("validate_file", req.files[i].field) =>
                (Did("process_uploaded_file", req.files[i].field)
                    <=> /\ req.files[i].file.filename # ""
                        /\ AllowedName(req.files[i].file.filename)
                        /\ req.files[i].file.size >= 1
                        /\ req.files[i].file.size <= MaxUploadBytes)

\* the contract of C1 on the validator of file_processors alone
ValidatorContract ==
    Returned("validate_file") =>
        (ret.ok <=> /\ call.file.present /\ call.file.filename # ""
                    /\ AllowedName(call.file.filename)
                    /\ call.file.size >= 1 /\ call.file.size <= MaxUploadBytes)

\* C9: a no-call request never calls the remote API and gets a success
\* response, whatever the form data, the uploaded file data and the server
\* file data.
C9_NoCallSucceeds ==
    (pc = "done" /\ DidAny("handle_no_call_page")) =>
        /\ api_calls = 0
        /\ ~DidAny("messages.create")
        /\ resp.status = 200 /\ resp.error = ""

\* the contract of C9 on the handler of page_handlers alone
NoCallHandlerContract ==
    Returned("handle_no_call_page") =>
        ret.calls = 0 /\ ret.steps = <<>> /\ ret.resp.status = 200 /\ ret.resp.error = ""

ClaudePath == InRequest /\ page_type = "claude-call"

AllUploadsProcessed ==
    \A i \in 1..Len(req.files) :
        req.files[i].file.filename # "" =>
            /\ Did("validate_file", req.files[i].field)
            /\ Did("process_uploaded_file", req.files[i].field)

FailedRequest == InRequest /\ pc = "done" /\ resp.status # 200

LastStep == IF trace = <<>> THEN "" ELSE trace[Len(trace)].step

\* validate_file refused an upload
ValidationFailed == LastStep = "validate_file"

\* process_uploaded_file raised on an upload the validator had accepted
ParsingFailed == LastStep = "process_uploaded_file"

MissingInstruction == LastStep = "build_claude_prompt" /\ resp.error = "No Claude prompt provided"

ClientUnavailable == LastStep = "handle_claude_call_page" /\ ~env.claude_client

RemoteCallRaised == LastStep = "messages.create"

\* an exception inside a page handler before any remote call
HandlerRaised ==
    \/ LastStep = "handle_no_call_page"
    \/ LastStep = "build_claude_prompt" /\ resp.error # "No Claude prompt provided"

UnknownType == LastStep = "load_server_files"

DirsOf(c) == IF c.directories.given THEN c.directories.dirs ELSE <<c.page_name>>

MultiMode(c) == Len(DirsOf(c)) # 1

\* the files of a listing that load, in listing order, each with its directory
RECURSIVE LoadedOf(_, _)
LoadedOf(listing, directory) ==
    IF listing = <<>> THEN <<>>
    ELSE LET entry == listing[1]
             file_data == process_server_file(directory \o "/" \o entry.name, entry.doc)
         IN  (IF entry.isfile /\ ~file_data.none
              THEN <<[dir |-> directory, name |-> entry.name, v |-> Dict(file_data.data)]>>
              ELSE <<>>)
             \o LoadedOf(Tail(listing), directory)

\* the enumeration order: directories in list order, files in listing order
RECURSIVE Encountered(_, _)
Encountered(fs, dirs) ==
    IF dirs = <<>> THEN <<>>
    ELSE (IF HasKey(fs, dirs[1]) THEN LoadedOf(Get(fs, dirs[1], <<>>), dirs[1]) ELSE <<>>)
         \o Encountered(fs, Tail(dirs))

\* the filename without its .docx, .pdf or .txt extension
StripExt(filename) ==
    IF endswith(lower(filename), ".docx") THEN SubSeq(filename, 1, Len(filename) - 5)
    ELSE SubSeq(filename, 1, Len(filename) - 4)

BaseKey(filename) == replace(replace(StripExt(filename), "_", " "), "-", " ")

\* the key the file is to get
ExpectedKey(c, f) ==
    IF MultiMode(c) /\ f.dir # c.page_name
    THEN f.dir \o " - " \o BaseKey(f.name)
    ELSE BaseKey(f.name)

\* C14: in multi-directory mode the result has exactly one entry per distinct
\* key, and it holds the content of the first file of the enumeration order
\* that produces the key; a later file with the same key never replaces it.
C14_FirstOccurrenceKept ==
    (Returned("load_server_files") /\ MultiMode(call)) =>
        LET enc == Encountered(call.fs, DirsOf(call))
            out == ret.server_files
        IN  /\ \A i, j \in 1..Len(out) : i # j => out[i].k # out[j].k
            /\ {out[i].k : i \in 1..Len(out)} = {ExpectedKey(call, enc[j]) : j \in 1..Len(enc)}
            /\ \A i \in 1..Len(out) :
                   LET first == CHOOSE j \in 1..Len(enc) :
                                    /\ ExpectedKey(call, enc[j]) = out[i].k
                                    /\ \A h \in 1..(j - 1) : ExpectedKey(call, enc[h]) # out[i].k
                   IN  out[i].v = enc[first].v

C14_Witness ==
    /\ Returned("load_server_files") /\ MultiMode(call)
    /\ LET enc == Encountered(call.fs, DirsOf(call)) IN
       \E i, j \in 1..Len(enc) :
           /\ i < j /\ ExpectedKey(call, enc[i]) = ExpectedKey(call, enc[j])
           /\ enc[i].v # enc[j].v /\ enc[i].name # enc[j].name
           /\ Get(ret.server_files, ExpectedKey(call, enc[i]), Dict(<<>>)) = enc[i].v

\* C15: every loaded file is keyed by its filename without extension, with
\* '_' and '-' replaced by spaces; unprefixed in single-directory mode and for
\* the page's own directory, '<directory> - <base key>' for any other
\* directory of multi-directory mode; files of the same name in different
\* directories get different keys.
C15_KeysByDirectory ==
    Returned("load_server_files") =>
        LET enc == Encountered(call.fs, DirsOf(call))
            out == ret.server_files
        IN  /\ {out[i].k : i \in 1..Len(out)} = {ExpectedKey(call, enc[j]) : j \in 1..Len(enc)}
            /\ \A i, j \in 1..Len(enc) :
                   (enc[i].name = enc[j].name /\ enc[i].dir # enc[j].dir) =>
                       ExpectedKey(call, enc[i]) # ExpectedKey(call, enc[j])
            /\ \A i \in 1..Len(out) :
                   \E j \in 1..Len(enc) :
                       out[i].k = ExpectedKey(call, enc[j]) /\ out[i].v = enc[j].v

C15_Witness ==
    /\ Returned("load_server_files") /\ MultiMode(call)
    /\ HasKey(ret.server_files, "notes") /\ HasKey(ret.server_files, "shared - notes")
    /\ HasKey(ret.server_files, "guide lines") /\ HasKey(ret.server_files, "shared - Notes.v2")

(***************************************************************************)
(* Properties of the text extractors                                       *)
(***************************************************************************)
\* some page yields text that is not blank
SomePageHasText(pdf) ==
    \E i \in 1..Len(pdf.pages) : ~pdf.pages[i].fails /\ ~AllSpace(pdf.pages[i].text)

\* C16: extract_text_from_pdf never returns an empty result; when no page
\* yields non-blank text (no page at all, or every page blank or failing) it
\* raises an error saying that no text could be extracted.
C16_NoTextIsAnError ==
    Returned("extract_text_from_pdf") =>
        /\ ~ret.raised => (ret.text # "" /\ SomePageHasText(call.pdf))
        /\ (call.pdf.readable /\ ~SomePageHasText(call.pdf)) =>
               /\ ret.raised
               /\ endswith(ret.error, "No text could be extracted from the PDF")

C16_Witness ==
    /\ Returned("extract_text_from_pdf") /\ call.pdf.readable
    /\ Len(call.pdf.pages) = 2 /\ call.pdf.pages[1].fails /\ ~call.pdf.pages[2].fails
    /\ ~SomePageHasText(call.pdf) /\ ret.raised

\* the texts of the body's blocks, each at the position its block has
RECURSIVE InDocumentOrder(_)
InDocumentOrder(body) ==
    IF body = <<>> THEN <<>>
    ELSE (IF body[1].kind = "p" THEN ParagraphTexts(<<body[1]>>) ELSE RowTexts(body[1].rows))
         \o InDocumentOrder(Tail(body))

\* C17: extract_text_from_docx outputs the non-empty paragraph texts and the
\* table rows (non-empty cells joined by " | ", rows without one omitted) in
\* document order, each table's rows at the position the table has among the
\* paragraphs.
C17_DocumentOrder ==
    (Returned("extract_text_from_docx") /\ ~ret.raised) =>
        ret.text = join("\n", InDocumentOrder(call.docx.body))

\* what the extractor does keep: the paragraphs in their order, then the rows
\* of all tables in theirs
DocxParagraphsThenTables ==
    (Returned("extract_text_from_docx") /\ ~ret.raised) =>
        ret.text = join("\n", InDocumentOrder(BlocksOf(call.docx.body, "p"))
                                  \o InDocumentOrder(BlocksOf(call.docx.body, "tbl")))

(***************************************************************************)
(* Properties of the document extractors                                   *)
(***************************************************************************)
ReturnedDocument ==
    /\ Returned("process_uploaded_file") \/ Returned("process_server_file")
    /\ ~ret.out.raised /\ ~ret.out.none

\* C18: every document process_uploaded_file or process_server_file returns
\* has file_type docx, pdf or txt and a text_content, xml_structure exactly
\* when it is docx, form_data exactly when it is pdf, and no other field.
C18_FieldsByFileType ==
    ReturnedDocument =>
        LET d == ret.out.data IN
        /\ "file_type" \in DOMAIN d /\ "text_content" \in DOMAIN d
        /\ d.file_type \in {"docx", "pdf", "txt"}
        /\ "xml_structure" \in DOMAIN d <=> d.file_type = "docx"
        /\ "form_data" \in DOMAIN d <=> d.file_type = "pdf"
        /\ DOMAIN d \subseteq {"file_type", "text_content", "xml_structure", "form_data"}

C18_Witness ==
    /\ ReturnedDocument /\ call.fn = "process_server_file"
    /\ ret.out.data.file_type = "pdf" /\ "form_data" \in DOMAIN ret.out.data

\* the name the call is given
NameOf(c) == IF c.fn = "process_uploaded_file" THEN c.file.filename ELSE c.file_path

Unsupported(c) ==
    /\ c.fn = "process_uploaded_file" => c.file.present
    /\ ~AllowedName(NameOf(c))

UnsupportedMessage == "Unsupported file type. Please upload .docx, .pdf, or .txt files only."

\* C19 as stated: for any other extension both functions reject the file with
\* a descriptive error and attempt no parsing step.
C19_Original ==
    ((Returned("process_uploaded_file") \/ Returned("process_server_file"))
         /\ Unsupported(call)) =>
        ret.out.raised /\ ret.out.error # "" /\ ret.steps = <<>>

\* C19 amended: for any other extension no parsing step is attempted and no
\* document is returned; process_uploaded_file raises an error, the
\* unsupported-type message or "File is empty" when the file has no content,
\* while process_server_file raises nothing: it logs a warning naming the
\* path and returns None.
C19_RejectedBeforeParsing ==
    /\ (Returned("process_uploaded_file") /\ Unsupported(call)) =>
           /\ ret.steps = <<>> /\ ret.out.raised
           /\ ret.out.error = IF call.file.size = 0 THEN "File is empty" ELSE UnsupportedMessage
    /\ (Returned("process_server_file") /\ Unsupported(call)) =>
           /\ ret.steps = <<>> /\ ~ret.out.raised /\ ret.out.none
           /\ ret.log = "Unsupported server file type: " \o call.file_path

C19_Witness ==
    /\ Returned("process_server_file") /\ Unsupported(call)
    /\ endswith(call.file_path, ".txt.bak") /\ ret.out.none /\ ret.steps = <<>>

(***************************************************************************)
(* Properties of the no-call summary                                       *)
(***************************************************************************)
\* the summary that reports servers server files, uploads uploaded documents
\* and fields completed form fields
SummaryText(servers, uploads, fields) ==
    join("\n", <<"## Summary", "",
                 "- **Server Reference Files:** " \o ToString(servers),
                 "- **Uploaded Documents:** " \o ToString(uploads),
                 "- **Form Fields Completed:** " \o ToString(fields),
                 "- **Total Items Processed:** " \o ToString(servers + uploads + fields)>>)

\* C20: the summary of a no-call response reports the number of loaded
\* server files, the number of processed uploads, and a total equal to those
\* two plus the reported number of completed form fields; with no files and
\* no server files the response is a success with both counts 0.
C20_SummaryCounts ==
    Returned("handle_no_call_page") =>
        /\ ret.resp.status = 200
        /\ \E fields \in 0..Len(call.form_data) :
               endswith(ret.resp.body.content,
                        SummaryText(Len(call.server_files_data), Len(call.uploaded_files_data),
                                    fields))
        /\ Len(ret.resp.body.server_files_loaded) = Len(call.server_files_data)
        /\ Len(ret.resp.body.files_processed) = Len(call.uploaded_files_data)
        /\ (call.server_files_data = <<>> /\ call.uploaded_files_data = <<>>) =>
               \E fields \in 0..Len(call.form_data) :
                   endswith(ret.resp.body.content, SummaryText(0, 0, fields))

C20_Witness ==
    /\ Returned("handle_no_call_page") /\ ret.resp.status = 200
    /\ Len(call.server_files_data) = 2 /\ Len(call.uploaded_files_data) = 1
    /\ endswith(ret.resp.body.content, SummaryText(2, 1, 2))

\* the end-to-end case of C20 on POST /api/<page_name>: no upload and no
\* server file
NoCallWithoutFiles ==
    (InRequest /\ pc = "done" /\ page_type = "no-call" /\ uploaded = <<>> /\ server = <<>>
         /\ DidAny("handle_no_call_page")) =>
        /\ resp.status = 200
        /\ \E fields \in 0..Len(req.form) :
               endswith(resp.body.content, SummaryText(0, 0, fields))

EmptyPrompt == InRequest /\ Get(req.form, "claude_prompt", "") = ""

Invocations(steps) == Cardinality({i \in 1..Len(steps) : steps[i] = "messages.create"})

RemoteCallOutcome ==
    /\ ret.calls = 1 /\ Invocations(ret.steps) = 1
    /\ call.api_error # "" =>
           /\ ret.resp.status = 500
           /\ endswith(ret.resp.error, call.api_error)
           /\ ret.steps[Len(ret.steps)] = "messages.create"
    /\ call.api_error = "" => ret.resp.status = 200

Answered(s) == pc[s] = "done"

\* C21: however the steps of the requests in flight interleave, and whatever
\* the requests answered before them were, the response of every answered
\* request is the response generic_api gives that request when it runs alone
\* against the same directory tree and client configuration (for one of the
\* outcomes of the remote call).
C21_RequestsIndependent ==
    \A s \in ConcSlots :
        Answered(s) => \E api_error \in ApiErrors : resp[s] = generic_api(req[s], env, api_error)

\* two requests in flight together, one answered with an error, the other with success
C21_Witness ==
    \E s \in ConcSlots : \E o \in ConcSlots :
        /\ Answered(s) /\ resp[s].status = 400 /\ Len(trace[s]) > 0
        /\ Answered(o) /\ resp[o].status = 200

(***************************************************************************)
(* Properties of serve_binary_file                                         *)
(***************************************************************************)
BasePath == "/app/server_files"

JoinedPath == safe_join(BasePath, <<call.page_name, call.filename>>)

PathRejected == JoinedPath.none \/ ~startswith(JoinedPath.path, BasePath)

NoRegularFile == ~PathRejected /\ ~path_isfile(BinaryFs, JoinedPath.path)

\* C22: when the path /app/server_files/<page_name>/<filename> does not
\* exist or is not a regular file, serve_binary_file ends the request with
\* status 404; otherwise it returns the requested file's content.
C22_MissingFileIs404 ==
    Returned("serve_binary_file") =>
        /\ NoRegularFile => ret.status = 404 /\ ret.sent = ""
        /\ ~NoRegularFile /\ ~PathRejected => ret.status = 200 /\ ret.sent = JoinedPath.path

\* what the code does for a missing file: the 404 raised by abort is caught and replaced
MissingFileIs500 ==
    Returned("serve_binary_file") /\ NoRegularFile => ret.status = 500 /\ ret.sent = ""

\* a regular file under the base directory is sent with the type of its extension
ExistingFileIsSent ==
    Returned("serve_binary_file") /\ ~NoRegularFile /\ ~PathRejected =>
        ret.status = 200 /\ ret.sent = JoinedPath.path

\* C30: serve_binary_file never sends a file outside /app/server_files: when
\* the path joined from page_name and filename is invalid or does not lie
\* under the base directory, nothing is sent and the request is aborted with
\* status 403.
C30_OutsidePathIs403 ==
    Returned("serve_binary_file") =>
        /\ ret.sent # "" => startswith(normpath(ret.sent), BasePath \o "/")
        /\ PathRejected => ret.status = 403 /\ ret.sent = ""

\* the part of C30 the code keeps: only files under the base directory are sent
NothingOutsideIsSent ==
    Returned("serve_binary_file") =>
        /\ ret.sent # "" => startswith(normpath(ret.sent), BasePath \o "/")
        /\ PathRejected => ret.status = 500 /\ ret.sent = ""

(***************************************************************************)
(* Properties of the XML rendering of build_claude_prompt                  *)
(***************************************************************************)
TruncationMarker == "... [truncated]"

\* the XML lines the prompt holds for one file of one section
XmlLinesOf(sec, owner) ==
    LET at == {i \in 1..Len(ret.sections) :
                  /\ ret.sections[i].kind = "docx_xml"
                  /\ ret.sections[i].sec = sec /\ ret.sections[i].owner = owner}
    IN  [i \in at |-> ret.sections[i].text]

PartAsClaimed(part, lines) ==
    LET xml_str == PyStr(part.v)
        heads == {i \in DOMAIN lines : lines[i] = upper(part.k) \o ":"}
    IN  IF part.k = "error" \/ ~PartTruthy(part.v) THEN heads = {}
        ELSE \E i \in heads :
                 /\ i + 1 \in DOMAIN lines
                 /\ IF Len(xml_str) > 2000
                    THEN /\ lines[i + 1] = SubSeq(xml_str, 1, 2000) \o TruncationMarker
                         /\ Len(lines[i + 1]) = 2000 + Len(TruncationMarker)
                    ELSE /\ lines[i + 1] = xml_str
                         /\ ~endswith(lines[i + 1], TruncationMarker)

XmlAsClaimed(sec, files) ==
    \A n \in 1..Len(files) :
        LET lines == XmlLinesOf(sec, files[n].k)
        IN  DOMAIN lines # {} =>
                \A p \in 1..Len(files[n].v.d.xml_structure) :
                    PartAsClaimed(files[n].v.d.xml_structure[p], lines)

\* C23: where build_claude_prompt renders the XML structure of a file, a part
\* whose string form is longer than 2000 characters appears as its first 2000
\* characters followed by '... [truncated]', a part of at most 2000
\* characters appears in full without the marker, and a part keyed 'error'
\* or with empty content does not appear.
C23_XmlTruncatedAt2000 ==
    Returned("build_claude_prompt") =>
        /\ XmlAsClaimed("server", call.server_files_data)
        /\ XmlAsClaimed("upload", call.uploaded_files_data)

\* a prompt with parts over the limit, exactly at it and under it, for strings and for lists
C23_Witness ==
    /\ Returned("build_claude_prompt")
    /\ call.server_files_data \in LongXmlInputs /\ call.server_files_data # <<>>
    /\ LET lines == XmlLinesOf("server", "long")
       IN  /\ \E i \in DOMAIN lines : lines[i] = Repeat("x", 2000) \o TruncationMarker
           /\ \E i \in DOMAIN lines : lines[i] = Repeat("s", 2000)
           /\ \E i \in DOMAIN lines : lines[i] = "['" \o Repeat("f", 1997) \o "'" \o TruncationMarker
           /\ \E i \in DOMAIN lines : lines[i] = "['" \o Repeat("r", 1996) \o "']"
           /\ \A i \in DOMAIN lines : lines[i] # "ERROR:" /\ lines[i] # "NUMBERING:"

(***************************************************************************)
(* Properties of the dispatch on page_type                                 *)
(***************************************************************************)
HandlerSteps == {i \in 1..Len(trace) : trace[i].step \in {"handle_no_call_page", "handle_claude_call_page"}}

\* the request got past its uploads and was answered
Dispatched == InRequest /\ pc = "done" /\ DidAny("load_server_files")

TypeField == IF HasKey(req.form, "page_type") THEN Get(req.form, "page_type", "") ELSE "absent"

\* C24: a request runs at most one page handler.  Once its uploads are
\* through, page_type 'no-call' runs the no-call handler only, 'claude-call'
\* or an absent page_type the claude-call handler only, and any other value
\* is answered 400 'Unknown page type' with no handler run; the remote API
\* is called on the claude-call path only.
C24_OneHandlerByPageType ==
    InRequest =>
        /\ Cardinality(HandlerSteps) <= 1
        /\ api_calls > 0 => DidAny("handle_claude_call_page")
        /\ Dispatched =>
               /\ DidAny("handle_no_call_page") = (TypeField = "no-call")
               /\ DidAny("handle_claude_call_page") = (TypeField \in {"claude-call", "absent"})
               /\ TypeField \notin {"no-call", "claude-call", "absent"} =>
                      /\ resp.status = 400
                      /\ startswith(resp.error, "Unknown page type")
                      /\ HandlerSteps = {} /\ api_calls = 0 /\ ~DidAny("messages.create")

\* a request with an accepted upload and page_type 'preview', answered 400 with no handler run
C24_Witness ==
    /\ Dispatched /\ TypeField = "preview"
    /\ resp.status = 400 /\ HandlerSteps = {}
    /\ uploaded # <<>>

(***************************************************************************)
(* Properties of the page headers of extract_text_from_pdf                 *)
(***************************************************************************)
YieldsText(pdf, n) == ~pdf.pages[n].fails /\ ~AllSpace(pdf.pages[n].text)

\* header and trimmed text of the pages n.. that yield text, n counted from 1
RECURSIVE PagesFrom(_, _)
PagesFrom(pdf, n) ==
    IF n > Len(pdf.pages) THEN <<>>
    ELSE (IF YieldsText(pdf, n)
          THEN <<"--- Page " \o ToString(n) \o " ---", strip(pdf.pages[n].text)>>
          ELSE <<>>)
         \o PagesFrom(pdf, n + 1)

\* C25: the text extract_text_from_pdf returns is, in ascending page order,
\* the header '--- Page N ---' and the trimmed text of exactly the pages
\* that yield non-blank text, N being the page's 1-based position in the
\* document; a blank page and a page whose extraction raises add nothing and
\* do not stop the pages after them from being extracted.
C25_PageHeaders ==
    Returned("extract_text_from_pdf") /\ call.pdf.readable =>
        /\ ~ret.raised => ret.text = join("\n", PagesFrom(call.pdf, 1))
        /\ ret.raised = (PagesFrom(call.pdf, 1) = <<>>)

\* page 1 raises, page 2 yields text: the result is page 2 under its own number
C25_Witness ==
    /\ Returned("extract_text_from_pdf") /\ call.pdf.readable
    /\ Len(call.pdf.pages) = 2 /\ call.pdf.pages[1].fails /\ YieldsText(call.pdf, 2)
    /\ ret.text = "--- Page 2 ---\nHello"

(***************************************************************************)
(* Properties of the single-directory mode of load_server_files            *)
(***************************************************************************)
\* C26: in single-directory mode no first-occurrence rule applies: the
\* result has one entry per distinct key, holding the content of the last
\* file of the listing that normalizes to the key, so it can have fewer
\* entries than files extracted.
C26_SingleModeLastWins ==
    (Returned("load_server_files") /\ ~MultiMode(call)) =>
        LET enc == Encountered(call.fs, DirsOf(call))
            out == ret.server_files
        IN  /\ \A i, j \in 1..Len(out) : i # j => out[i].k # out[j].k
            /\ {out[i].k : i \in 1..Len(out)} = {BaseKey(enc[j].name) : j \in 1..Len(enc)}
            /\ Len(out) <= Len(enc)
            /\ \A i \in 1..Len(out) :
                   LET last == CHOOSE j \in 1..Len(enc) :
                                   /\ BaseKey(enc[j].name) = out[i].k
                                   /\ \A h \in (j + 1)..Len(enc) : BaseKey(enc[h].name) # out[i].k
                   IN  out[i].v = enc[last].v

\* guide_lines.txt and guide-lines.docx of one directory: one entry, with the content of the second
C26_Witness ==
    /\ Returned("load_server_files") /\ ~MultiMode(call)
    /\ LET enc == Encountered(call.fs, DirsOf(call)) IN
       /\ Len(ret.server_files) < Len(enc)
       /\ \E i, j \in 1..Len(enc) :
              /\ i < j /\ BaseKey(enc[i].name) = BaseKey(enc[j].name)
              /\ enc[i].v # enc[j].v
              /\ \A h \in (j + 1)..Len(enc) : BaseKey(enc[h].name) # BaseKey(enc[j].name)
              /\ Get(ret.server_files, BaseKey(enc[j].name), Dict(<<>>)) = enc[j].v

(***************************************************************************)
(* Properties of the stream position after validation                      *)
(***************************************************************************)
\* validate_file got as far as seeking to the end of the stream
Measured(file) == file.present /\ file.filename # "" /\ SupportedExt(lower(file.filename))

\* process_uploaded_file called on the stream as validate_file left it
ExtractedAfterValidation(doc) == process_uploaded_file([call.file EXCEPT !.pos = ret.pos], doc)

\* C27: whenever validate_file measures the size of a stream it returns with
\* the stream at offset 0, for accepted and size-rejected files alike, and
\* the process_uploaded_file call that follows an acceptance reads the whole
\* content of the file.
C27_StreamRewound ==
    Returned("validate_file") =>
        /\ Measured(call.file) => ret.pos = 0
        /\ ret.ok =>
               \A text \in {"text", "Dear A\n"} :
                   LET file_data == ExtractedAfterValidation(DocOf(text))
                   IN  /\ ~file_data.raised /\ ~file_data.none
                       /\ file_data.data.text_content = text

\* a stream handed over at offset 1 and accepted
C27_Witness ==
    /\ Returned("validate_file") /\ Measured(call.file)
    /\ call.file.pos = 1 /\ ret.ok /\ ret.pos = 0
    /\ ExtractedAfterValidation(DocOf("text")).data.text_content = "text"

\* generic_api: an accepted upload whose document parses is held with its whole text
EndpointReadsWholeUpload ==
    InRequest =>
        \A i \in 1..Len(req.files) :
            LET up == req.files[i]
            IN  (Did("process_uploaded_file", up.field) /\ ~up.doc.text_fails) =>
                    \E n \in 1..Len(uploaded) :
                        /\ uploaded[n].v.isdict
                        /\ uploaded[n].v.d.text_content = up.doc.text

(***************************************************************************)
(* Properties of the upload loop of generic_api                            *)
(***************************************************************************)
HasUpload(up) == up.file.present /\ up.file.filename # ""

\* the upload is refused by the validator, or accepted and unparsable
BadUpload(up) == HasUpload(up) /\ (~app_validate_file(up.file).ok \/ up.doc.text_fails)

BadUploads == {i \in 1..Len(req.files) : BadUpload(req.files[i])}

FirstBad == CHOOSE i \in BadUploads : \A j \in BadUploads : i <= j

\* the position in request.files of the upload a step of the trace worked on
FileOf(step) == CHOOSE i \in 1..Len(req.files) : req.files[i].field = step.field

Extractable(entry) ==
    /\ entry.isfile
    /\ \E ext \in {".docx", ".pdf", ".txt"} : endswith(lower(entry.name), ext)
    /\ ~entry.doc.text_fails

ListingOf(fs, directory) == IF HasKey(fs, directory) THEN Get(fs, directory, <<>>) ELSE <<>>

\* the extractable files of the directories asked for, each with its directory
\* the entries of the directories asked for, as <<directory, entry>>
EntriesOf(c) ==
    UNION {{<<DirsOf(c)[d], ListingOf(c.fs, DirsOf(c)[d])[n]>> :
               n \in 1..Len(ListingOf(c.fs, DirsOf(c)[d]))} : d \in 1..Len(DirsOf(c))}

\* the extractable files among them, each with its directory
ExtractableFiles(c) ==
    {[dir |-> e[1], name |-> e[2].name, text |-> e[2].doc.text] :
        e \in {x \in EntriesOf(c) : Extractable(x[2])}}

OmittedEntries(c) == {e \in EntriesOf(c) : ~Extractable(e[2])}

\* C29: load_server_files always returns a mapping: an entry that is not a
\* regular file, has an unsupported extension or does not parse adds
\* nothing to it, every extractable file of the directories is present under
\* its key, every entry comes from an extractable file, and a directory that
\* does not exist adds nothing (an empty mapping when it is the only one).
C29_LoaderOmitsWhatFails ==
    Returned("load_server_files") =>
        LET out == ret.server_files
            files == ExtractableFiles(call)
        IN  /\ {out[i].k : i \in 1..Len(out)} = {ExpectedKey(call, f) : f \in files}
            /\ \A i \in 1..Len(out) :
                   \E f \in files :
                       /\ out[i].k = ExpectedKey(call, f)
                       /\ out[i].v.isdict /\ out[i].v.d.text_content = f.text
            /\ (\A d \in 1..Len(DirsOf(call)) : ~HasKey(call.fs, DirsOf(call)[d])) => out = <<>>

\* one directory with a subdirectory and an unparsable PDF among files that load
C29_Witness ==
    /\ Returned("load_server_files") /\ ~MultiMode(call)
    /\ Cardinality(OmittedEntries(call)) = 2
    /\ Cardinality(ExtractableFiles(call)) = 3
    /\ HasKey(ret.server_files, "notes") /\ HasKey(ret.server_files, "guide lines")

====
